---------------------------- MODULE Spec2Model ----------------------------
(***************************************************************************)
(* vconcat: the subtitle transformer srtToAss (lib/srt-to-ass.js).         *)
(*                                                                         *)
(* A JavaScript string is a sequence of one-character strings.  Every      *)
(* string method and regular expression srtToAss uses is an operator that  *)
(* computes what the method computes; positions are 1-based here and       *)
(* 0-based in the source.                                                  *)
(***************************************************************************)
EXTENDS Integers, Sequences, FiniteSets, TLC

NL == "\n"
BS == "\\"
\* the grave accent and the apostrophe of the replacement patterns
GRAVE == "grave"
APOS == "'"

\* ------------------------------------------------------------------------
\* Character classes of the regular expressions
\* ------------------------------------------------------------------------

\* \d
IsDigit(c) == c \in {"0", "1", "2", "3", "4", "5", "6", "7", "8", "9"}

\* \s (and the characters String.prototype.trim removes)
IsSpace(c) == c \in {" ", "\t", "\n", "\r", "\f"}

\* the line terminators ^ and $ look at under the m flag
IsLineTerminator(c) == c \in {"\n", "\r"}

\* a character of a word the date parser reads as one token
IsLetter(c) ==
    c \in {"a", "b", "c", "d", "e", "f", "g", "h", "i", "j", "k", "l", "m",
           "n", "o", "p", "q", "r", "s", "t", "u", "v", "w", "x", "y", "z",
           "A", "B", "C", "D", "E", "F", "G", "H", "I", "J", "K", "L", "M",
           "N", "O", "P", "Q", "R", "S", "T", "U", "V", "W", "X", "Y", "Z"}

DigitVal(c) ==
    CASE c = "0" -> 0 [] c = "1" -> 1 [] c = "2" -> 2 [] c = "3" -> 3
      [] c = "4" -> 4 [] c = "5" -> 5 [] c = "6" -> 6 [] c = "7" -> 7
      [] c = "8" -> 8 [] c = "9" -> 9

DigitChar(n) ==
    CASE n = 0 -> "0" [] n = 1 -> "1" [] n = 2 -> "2" [] n = 3 -> "3"
      [] n = 4 -> "4" [] n = 5 -> "5" [] n = 6 -> "6" [] n = 7 -> "7"
      [] n = 8 -> "8" [] n = 9 -> "9"

\* ------------------------------------------------------------------------
\* String methods
\* ------------------------------------------------------------------------

Min(a, b) == IF a < b THEN a ELSE b
Max(a, b) == IF a > b THEN a ELSE b

\* s.slice(i - 1) for a 1-based i
From(s, i) == SubSeq(s, i, Len(s))

\* does pat occur in s at position i
OccursAt(s, pat, i) ==
    /\ i >= 1
    /\ i + Len(pat) - 1 <= Len(s)
    /\ \A k \in 1..Len(pat) : s[i + k - 1] = pat[k]

RECURSIVE IndexOf(_, _, _)
\* s.indexOf(pat, from - 1) + 1: the first position >= from where pat occurs, 0 if none
IndexOf(s, pat, from) ==
    IF from + Len(pat) - 1 > Len(s) THEN 0
    ELSE IF OccursAt(s, pat, from) THEN from
    ELSE IndexOf(s, pat, from + 1)

Includes(s, pat) == IndexOf(s, pat, 1) # 0

RECURSIVE Flatten(_)
Flatten(ss) == IF ss = <<>> THEN <<>> ELSE Head(ss) \o Flatten(Tail(ss))

RECURSIVE JoinStr(_, _)
\* Array.prototype.join
JoinStr(ss, sep) ==
    IF ss = <<>> THEN <<>>
    ELSE IF Len(ss) = 1 THEN ss[1]
    ELSE ss[1] \o sep \o JoinStr(Tail(ss), sep)

RECURSIVE SplitStr(_, _)
\* String.prototype.split with a non-empty string separator
SplitStr(s, sep) ==
    LET i == IndexOf(s, sep, 1)
    IN  IF i = 0 THEN <<s>>
        ELSE <<SubSeq(s, 1, i - 1)>> \o SplitStr(From(s, i + Len(sep)), sep)

RECURSIVE SkipSpaces(_, _)
\* the first position >= i of s that holds no whitespace, Len(s) + 1 if none
SkipSpaces(s, i) ==
    IF i > Len(s) \/ ~IsSpace(s[i]) THEN i ELSE SkipSpaces(s, i + 1)

RECURSIVE SkipSpacesBack(_, _)
\* the last position <= i of s that holds no whitespace, 0 if none
SkipSpacesBack(s, i) ==
    IF i < 1 \/ ~IsSpace(s[i]) THEN i ELSE SkipSpacesBack(s, i - 1)

RECURSIVE SkipNewlines(_, _)
SkipNewlines(s, i) ==
    IF i > Len(s) \/ s[i] # NL THEN i ELSE SkipNewlines(s, i + 1)

RECURSIVE SkipDigits(_, _)
SkipDigits(s, i) ==
    IF i > Len(s) \/ ~IsDigit(s[i]) THEN i ELSE SkipDigits(s, i + 1)

\* String.prototype.trim
Trim(s) == SubSeq(s, SkipSpaces(s, 1), SkipSpacesBack(s, Len(s)))

\* String.prototype.slice(1, -1)
Slice1m1(s) == SubSeq(s, 2, Len(s) - 1)

RECURSIVE SplitNewlines(_)
\* String.prototype.split(/\n+/gm): the pieces between maximal runs of line feeds
SplitNewlines(s) ==
    LET i == IndexOf(s, <<NL>>, 1)
    IN  IF i = 0 THEN <<s>>
        ELSE <<SubSeq(s, 1, i - 1)>> \o SplitNewlines(From(s, SkipNewlines(s, i)))

RECURSIVE GetSubstitution(_, _, _, _, _)
\* GetSubstitution of ECMAScript: the replacement text with its $ patterns
\* expanded; matched is s[pos .. pos + Len(matched) - 1], captures the groups
GetSubstitution(matched, s, pos, captures, repl) ==
    IF repl = <<>> THEN <<>>
    ELSE IF repl[1] # "$" \/ Len(repl) = 1
    THEN <<repl[1]>> \o GetSubstitution(matched, s, pos, captures, Tail(repl))
    ELSE LET c == repl[2]
             rest == From(repl, 3)
         IN  IF c = "$" THEN <<"$">> \o GetSubstitution(matched, s, pos, captures, rest)
             ELSE IF c = "&" THEN matched \o GetSubstitution(matched, s, pos, captures, rest)
             ELSE IF c = GRAVE
             THEN SubSeq(s, 1, pos - 1) \o GetSubstitution(matched, s, pos, captures, rest)
             ELSE IF c = APOS
             THEN From(s, pos + Len(matched)) \o GetSubstitution(matched, s, pos, captures, rest)
             ELSE IF IsDigit(c) /\ DigitVal(c) >= 1 /\ DigitVal(c) <= Len(captures)
             THEN captures[DigitVal(c)] \o GetSubstitution(matched, s, pos, captures, rest)
             ELSE <<"$">> \o GetSubstitution(matched, s, pos, captures, Tail(repl))

\* String.prototype.replace with a string pattern: the first occurrence only
ReplaceFirst(s, pat, repl) ==
    LET i == IndexOf(s, pat, 1)
    IN  IF i = 0 THEN s
        ELSE SubSeq(s, 1, i - 1) \o GetSubstitution(pat, s, i, <<>>, repl)
               \o From(s, i + Len(pat))

\* ------------------------------------------------------------------------
\* Regular expressions of srtToAss
\* ------------------------------------------------------------------------

NoMatch == [found |-> FALSE, start |-> 0, end |-> 0]

\* [\d:,]
IsTimeCodeChar(c) == IsDigit(c) \/ c = ":" \/ c = ","

RECURSIVE SkipTimeCode(_, _)
SkipTimeCode(s, i) ==
    IF i > Len(s) \/ ~IsTimeCodeChar(s[i]) THEN i ELSE SkipTimeCode(s, i + 1)

RECURSIVE FindTimeCode(_, _)
FindTimeCode(s, i) ==
    IF i > Len(s) THEN 0 ELSE IF IsTimeCodeChar(s[i]) THEN i ELSE FindTimeCode(s, i + 1)

\* timeCodeRegex.exec(s) with timeCodeRegex = /([\d:,]+)/gi and the cursor at
\* lastIndex (0-based): the first maximal run of digits, colons and commas at
\* or after the cursor; start and end are the 1-based ends of the match
timeCodeRegexExec(s, lastIndex) ==
    LET i == IF lastIndex > Len(s) THEN 0 ELSE FindTimeCode(s, lastIndex + 1)
    IN  IF i = 0 THEN NoMatch
        ELSE [found |-> TRUE, start |-> i, end |-> SkipTimeCode(s, i) - 1]

\* what exec leaves in lastIndex: the index after the match, 0 when it fails
LastIndexAfter(m) == IF m.found THEN m.end ELSE 0

MatchText(s, m) == SubSeq(s, m.start, m.end)

RECURSIVE dateRegexFind(_, _)
\* /\[([^\]]+)\]/ tried at each position from i on: a "[", one or more
\* characters other than "]", then "]"
dateRegexFind(s, i) ==
    IF i > Len(s) THEN NoMatch
    ELSE LET j == IndexOf(s, <<"]">>, i + 1)
         IN  IF s[i] = "[" /\ j > i + 1
             THEN [found |-> TRUE, start |-> i, end |-> j]
             ELSE dateRegexFind(s, i + 1)

\* dateRegex.exec(s) with dateRegex = /\[([^\]]+)\]/g and the cursor at lastIndex
dateRegexExec(s, lastIndex) ==
    IF lastIndex > Len(s) THEN NoMatch ELSE dateRegexFind(s, lastIndex + 1)

\* group 1 of a dateRegex match: the text between the brackets
DateGroup(s, m) == SubSeq(s, m.start + 1, m.end - 1)

RECURSIVE dateRegexReplace(_, _, _)
\* s.replace(dateRegex, repl) from position i on: dateRegex carries the g
\* flag, so every match is replaced, not the first one only
dateRegexReplace(s, i, repl) ==
    LET m == dateRegexFind(s, i)
    IN  IF ~m.found THEN From(s, i)
        ELSE SubSeq(s, i, m.start - 1)
               \o GetSubstitution(MatchText(s, m), s, m.start, <<DateGroup(s, m)>>, repl)
               \o dateRegexReplace(s, m.end + 1, repl)

AtLineStart(s, i) == i = 1 \/ IsLineTerminator(s[i - 1])
AtLineEnd(s, j) == j > Len(s) \/ IsLineTerminator(s[j])

RECURSIVE IndexLineReplace(_, _)
\* sub.replace(/^[\d]+$/gm, '') from position i on: under the m flag every
\* line of the block that holds digits only is emptied
IndexLineReplace(s, i) ==
    IF i > Len(s) THEN <<>>
    ELSE LET j == SkipDigits(s, i)
         IN  IF AtLineStart(s, i) /\ j > i /\ AtLineEnd(s, j)
             THEN IndexLineReplace(s, j)
             ELSE <<s[i]>> \o IndexLineReplace(s, i + 1)

UpperOf(c) ==
    CASE c = "k" -> "K" [] c = "m" -> "M" [] c = "p" -> "P" [] c = "h" -> "H"
      [] OTHER -> c

\* the position after an optional character c (i flag) at position i
SkipOptional(s, i, c) == IF i <= Len(s) /\ UpperOf(s[i]) = c THEN i + 1 ELSE i

\* a pattern whose zero is optional: /\s+0?K?MP?\/?H/i tried at position i
speedRegexOptionalZero(s, i) ==
    LET a == SkipSpaces(s, i)
        z == SkipOptional(s, a, "0")
        b == SkipOptional(s, z, "K")
        c == SkipOptional(s, b + 1, "P")
        d == SkipOptional(s, c, "/")
    IN  IF /\ a > i
           /\ b <= Len(s) /\ UpperOf(s[b]) = "M"
           /\ d <= Len(s) /\ UpperOf(s[d]) = "H"
        THEN d + 1
        ELSE 0

\* /\s+0K?MP?\/?H/i tried at position i: the position after the match, 0 if
\* none.  The character after the whitespace run is no whitespace, and no
\* optional character equals the one that follows it in the pattern, so
\* backtracking finds nothing the greedy attempt misses
speedRegexMatchAt(s, i) ==
    LET a == SkipSpaces(s, i)
        b == SkipOptional(s, a + 1, "K")
        c == SkipOptional(s, b + 1, "P")
        d == SkipOptional(s, c, "/")
    IN  IF /\ a > i
           /\ a <= Len(s) /\ s[a] = "0"
           /\ b <= Len(s) /\ UpperOf(s[b]) = "M"
           /\ d <= Len(s) /\ UpperOf(s[d]) = "H"
        THEN d + 1
        ELSE 0

RECURSIVE speedRegexReplace(_, _)
\* s.replace(/\s+0K?MP?\/?H/gi, '') from position i on
speedRegexReplace(s, i) ==
    IF i > Len(s) THEN <<>>
    ELSE LET e == speedRegexMatchAt(s, i)
         IN  IF e # 0 THEN speedRegexReplace(s, e)
             ELSE <<s[i]>> \o speedRegexReplace(s, i + 1)

\* ------------------------------------------------------------------------
\* Date.parse and new Date(string) of the host (Node.js, V8's date parser)
\* restricted to the inputs of DateDomain: numbers, the separators . / - :
\* whitespace, and words that are no keyword of the parser (no month name,
\* AM/PM, time-zone name, no "T" time separator, no UTC offset, no
\* parentheses)
\* ------------------------------------------------------------------------

RECURSIVE NumVal(_)
NumVal(ds) == IF ds = <<>> THEN 0 ELSE 10 * NumVal(SubSeq(ds, 1, Len(ds) - 1)) + DigitVal(ds[Len(ds)])

RECURSIVE SkipLetters(_, _)
SkipLetters(s, i) ==
    IF i > Len(s) \/ ~IsLetter(s[i]) THEN i ELSE SkipLetters(s, i + 1)

\* words the parser knows no meaning of ("garbage words")
GarbageWords == { <<"x">>, <<"c", "a", "m">>,
                  <<"u", "n", "d", "e", "f", "i", "n", "e", "d">> }

RECURSIVE WordsInDomain(_, _)
WordsInDomain(s, i) ==
    IF i > Len(s) THEN TRUE
    ELSE IF IsLetter(s[i])
    THEN LET j == SkipLetters(s, i)
         IN  SubSeq(s, i, j - 1) \in GarbageWords /\ WordsInDomain(s, j)
    ELSE WordsInDomain(s, i + 1)

DateDomain(s) ==
    /\ \A i \in 1..Len(s) :
          \/ IsDigit(s[i]) \/ IsLetter(s[i]) \/ IsSpace(s[i])
          \/ s[i] \in {".", "/", ":"}
          \/ /\ s[i] = "-"
             /\ i > 1 /\ IsDigit(s[i - 1])
             /\ IndexOf(s, <<":">>, 1) \notin 1..i
          \/ /\ s[i] = "-"
             /\ \A k \in 1..(i - 1) : ~IsDigit(s[k])
    /\ WordsInDomain(s, 1)

IsDay(n) == n >= 1 /\ n <= 31
IsMonth(n) == n >= 1 /\ n <= 12
IsHour(n) == n >= 0 /\ n <= 23
IsMinute(n) == n >= 0 /\ n <= 59
IsSecond(n) == n >= 0 /\ n <= 59
IsMillisecond(n) == n >= 0 /\ n <= 999

\* TimeComposer::IsExpecting
TimeIsExpecting(time, n) ==
    \/ Len(time) = 1 /\ IsMinute(n)
    \/ Len(time) = 2 /\ IsSecond(n)
    \/ Len(time) = 3 /\ IsMillisecond(n)

RECURSIVE PadTime(_)
\* TimeComposer::AddFinal and Write fill the missing components with 0
PadTime(time) == IF Len(time) >= 4 THEN time ELSE PadTime(Append(time, 0))

ParseFail == [ok |-> FALSE, day |-> <<>>, time |-> <<>>, iso |-> FALSE]

\* ReadMilliseconds: the first three digits of the fraction
Millis(ds) ==
    IF Len(ds) = 1 THEN NumVal(ds) * 100
    ELSE IF Len(ds) = 2 THEN NumVal(ds) * 10
    ELSE NumVal(SubSeq(ds, 1, 3))

RECURSIVE LegacyParse(_, _, _, _, _)
\* the token loop of DateParser::Parse from position i on: day and time are
\* the components composed so far, hasNum is has_read_number
LegacyParse(s, i, day, time, hasNum) ==
    IF i > Len(s) THEN [ok |-> TRUE, day |-> day, time |-> time, iso |-> FALSE]
    ELSE IF IsDigit(s[i])
    THEN LET j == SkipDigits(s, i)
             n == NumVal(SubSeq(s, i, j - 1))
             nextIs(c) == j <= Len(s) /\ s[j] = c
         IN  IF nextIs(":")
             THEN IF j + 1 <= Len(s) /\ s[j + 1] = ":"
                  THEN IF time # <<>> THEN ParseFail
                       ELSE LegacyParse(s, j + 2, day, <<n, 0>>, TRUE)
                  ELSE IF Len(time) >= 4 THEN ParseFail
                  ELSE LegacyParse(s,
                                   IF j + 1 <= Len(s) /\ s[j + 1] = "." THEN j + 2 ELSE j + 1,
                                   day, Append(time, n), TRUE)
             ELSE IF nextIs(".") /\ TimeIsExpecting(time, n)
             THEN LET k == SkipDigits(s, j + 1)
                  IN  IF k = j + 1 THEN ParseFail
                      ELSE LegacyParse(s, k, day,
                                       PadTime(time \o <<n, Millis(SubSeq(s, j + 1, k - 1))>>),
                                       TRUE)
             ELSE IF ~nextIs(".") /\ TimeIsExpecting(time, n)
             THEN IF j > Len(s) \/ IsSpace(s[j]) \/ s[j] \in {"+", "-"}
                  THEN LegacyParse(s, j, day, PadTime(Append(time, n)), TRUE)
                  ELSE ParseFail
             ELSE \* a component of the day; the "." after it is consumed already
                  LET k == IF nextIs(".") THEN j + 1 ELSE j
                  IN  IF Len(day) >= 3 THEN ParseFail
                      ELSE LegacyParse(s,
                                       IF k <= Len(s) /\ s[k] = "-" THEN k + 1 ELSE k,
                                       Append(day, n), time, TRUE)
    ELSE IF IsLetter(s[i])
    THEN LET j == SkipLetters(s, i)
         IN  \* a garbage word is illegal once a number has been read, or
             \* directly in front of a number
             IF hasNum \/ (j <= Len(s) /\ IsDigit(s[j])) THEN ParseFail
             ELSE LegacyParse(s, j, day, time, hasNum)
    ELSE IF s[i] \in {"+", "-", ")"} /\ hasNum THEN ParseFail
    ELSE LegacyParse(s, i + 1, day, time, hasNum)

\* is s[i .. ] headed by a number of exactly n digits
IsFixedNumber(s, i, n) ==
    /\ i + n - 1 <= Len(s)
    /\ \A k \in i..(i + n - 1) : IsDigit(s[k])
    /\ (i + n > Len(s) \/ ~IsDigit(s[i + n]))

\* DateParser::ParseES5DateTime followed by the token loop: a leading
\* YYYY[-MM[-DD]] is read as an ISO date; when the string ends there it is
\* an ISO date (UTC), otherwise the legacy loop goes on after it
ParseTokens(s) ==
    IF ~IsFixedNumber(s, 1, 4) THEN LegacyParse(s, 1, <<>>, <<>>, FALSE)
    ELSE LET y == NumVal(SubSeq(s, 1, 4))
             hasM == /\ Len(s) >= 5 /\ s[5] = "-"
             okM == hasM /\ IsFixedNumber(s, 6, 2) /\ IsMonth(NumVal(SubSeq(s, 6, 7)))
             hasD == okM /\ Len(s) >= 8 /\ s[8] = "-"
             okD == hasD /\ IsFixedNumber(s, 9, 2) /\ IsDay(NumVal(SubSeq(s, 9, 10)))
             day == IF okD THEN <<y, NumVal(SubSeq(s, 6, 7)), NumVal(SubSeq(s, 9, 10))>>
                    ELSE IF okM THEN <<y, NumVal(SubSeq(s, 6, 7))>>
                    ELSE <<y>>
             pos == IF okD THEN 11
                    ELSE IF hasD THEN 9
                    ELSE IF okM THEN 8
                    ELSE IF hasM THEN 6
                    ELSE 5
             complete == (~hasM \/ okM) /\ (~hasD \/ okD)
         IN  IF complete /\ pos > Len(s)
             THEN [ok |-> TRUE, day |-> day, time |-> <<>>, iso |-> TRUE]
             ELSE LegacyParse(s, pos, day, <<>>, TRUE)

\* DayComposer::Write fills the missing components of the day with 1
PadDay(day) ==
    IF Len(day) = 1 THEN day \o <<1, 1>> ELSE IF Len(day) = 2 THEN day \o <<1>> ELSE day

\* DayComposer::Write and TimeComposer::Write on the padded components:
\* year-month-day when the date is ISO or its first number is no day of a
\* month, month-day-year otherwise; a year below 100 is moved into 1950..2049
ComposeFields(comp, iso, t) ==
    LET ymd == iso \/ ~IsDay(comp[1])
        year0 == IF ymd THEN comp[1] ELSE comp[3]
        month == IF ymd THEN comp[2] ELSE comp[1]
        day == IF ymd THEN comp[3] ELSE comp[2]
        year == IF iso THEN year0
                ELSE IF year0 >= 0 /\ year0 <= 49 THEN year0 + 2000
                ELSE IF year0 >= 50 /\ year0 <= 99 THEN year0 + 1900
                ELSE year0
        timeOk == \/ IsHour(t[1]) /\ IsMinute(t[2]) /\ IsSecond(t[3]) /\ IsMillisecond(t[4])
                  \/ t[1] = 24 /\ t[2] = 0 /\ t[3] = 0 /\ t[4] = 0
    IN  IF ~IsMonth(month) \/ ~IsDay(day) \/ ~timeOk THEN [ok |-> FALSE]
        ELSE [ok |-> TRUE, utc |-> iso, year |-> year, month |-> month, day |-> day,
              hour |-> t[1], minute |-> t[2], second |-> t[3], ms |-> t[4]]

\* the fields of the composed date, or ok = FALSE for an invalid date (NaN)
FieldsOf(p) ==
    IF ~p.ok \/ p.day = <<>> THEN [ok |-> FALSE]
    ELSE ComposeFields(PadDay(p.day), p.iso, PadTime(p.time))

\* the fields the host reads from the string s
ParseFields(s) == FieldsOf(ParseTokens(s))

\* days from 1970-01-01 to the civil date y-m-d (MakeDay; a day past the end
\* of its month runs into the next month)
DaysFromCivil(y, m, d) ==
    LET yy == IF m <= 2 THEN y - 1 ELSE y
        era == yy \div 400
        yoe == yy - era * 400
        mp == IF m > 2 THEN m - 3 ELSE m + 9
        doy == (153 * mp + 2) \div 5 + d - 1
        doe == yoe * 365 + yoe \div 4 - yoe \div 100 + doy
    IN  era * 146097 + doe - 719468

\* the civil date of a day number (YearFromTime, MonthFromTime, DateFromTime)
CivilFromDays(z0) ==
    LET z == z0 + 719468
        era == z \div 146097
        doe == z - era * 146097
        yoe == (doe - doe \div 1460 + doe \div 36524 - doe \div 146096) \div 365
        doy == doe - (365 * yoe + yoe \div 4 - yoe \div 100)
        mp == (5 * doy + 2) \div 153
        d == doy - (153 * mp + 2) \div 5 + 1
        m == IF mp < 10 THEN mp + 3 ELSE mp - 9
    IN  [year |-> IF m <= 2 THEN yoe + era * 400 + 1 ELSE yoe + era * 400,
         month |-> m, day |-> d]

\* the time value of the parsed fields f, in seconds since the epoch (UTC);
\* a string without time zone is local time, an ISO date alone is UTC;
\* tz is the local offset from UTC in minutes
UtcSeconds(f, tz) ==
    LET civil == DaysFromCivil(f.year, f.month, f.day) * 86400
                   + f.hour * 3600 + f.minute * 60 + f.second
    IN  IF f.utc THEN civil ELSE civil - tz * 60

\* is the time value of the fields f neither NaN nor 0
Truthy(f, tz) == f.ok /\ ~(UtcSeconds(f, tz) = 0 /\ f.ms = 0)

\* Date.parse(s) as the condition of an if
DateParseTruthy(s, tz) == Truthy(ParseFields(s), tz)

\* what the getters of a Date return on day number dayNo, secs seconds
\* after local midnight, c the civil date of that day
DateGetters(c, dayNo, secs) ==
    [getFullYear |-> c.year, getMonth |-> c.month - 1, getDate |-> c.day,
     getDay |-> (dayNo + 4) % 7,
     getHours |-> secs \div 3600,
     getMinutes |-> (secs % 3600) \div 60,
     getSeconds |-> secs % 60]

\* the Date of a local time in seconds since 1970-01-01 00:00 local
DateOfLocal(local) ==
    DateGetters(CivilFromDays(local \div 86400), local \div 86400, local % 86400)

\* new Date(s) read back through getFullYear(), getMonth(), getDate(),
\* getDay(), getHours(), getMinutes(), getSeconds()
DateOfFields(f, tz) == DateOfLocal(UtcSeconds(f, tz) + tz * 60)

NewDate(s, tz) == DateOfFields(ParseFields(s), tz)

RECURSIVE NumStr(_)
\* Number.prototype.toString of a natural number
NumStr(n) == IF n < 10 THEN <<DigitChar(n)>> ELSE NumStr(n \div 10) \o <<DigitChar(n % 10)>>

\* padStart(2, '0')
PadStart2(str) == IF Len(str) < 2 THEN <<"0">> \o str ELSE str

\* The letters a-breve, t-comma, i-circumflex and a-circumflex of the
\* Romanian names are one character each, written by an ASCII name.
months ==
    << <<"i", "a", "n", "u", "a", "r", "i", "e">>,
       <<"f", "e", "b", "r", "u", "a", "r", "i", "e">>,
       <<"m", "a", "r", "t", "i", "e">>,
       <<"a", "p", "r", "i", "l", "i", "e">>,
       <<"m", "a", "i">>,
       <<"i", "u", "n", "i", "e">>,
       <<"i", "u", "l", "i", "e">>,
       <<"a", "u", "g", "u", "s", "t">>,
       <<"s", "e", "p", "t", "e", "m", "b", "r", "i", "e">>,
       <<"o", "c", "t", "o", "m", "b", "r", "i", "e">>,
       <<"n", "o", "i", "e", "m", "b", "r", "i", "e">>,
       <<"d", "e", "c", "e", "m", "b", "r", "i", "e">> >>

days ==
    << <<"d", "u", "m", "i", "n", "i", "c", "a_breve">>,
       <<"l", "u", "n", "i">>,
       <<"m", "a", "r", "t_comma", "i">>,
       <<"m", "i", "e", "r", "c", "u", "r", "i">>,
       <<"j", "o", "i">>,
       <<"v", "i", "n", "e", "r", "i">>,
       <<"s", "i_circ", "m", "b", "a_breve", "t", "a_breve">> >>

\* a template that reads the weekday table as if it started at Monday
fallbackFormatMondayFirst(date) ==
    days[((date.getDay + 6) % 7) + 1] \o <<",", " ">> \o NumStr(date.getDate) \o <<" ">>
      \o months[date.getMonth + 1] \o <<" ">> \o NumStr(date.getFullYear) \o <<",", " ">>
      \o NumStr(date.getHours) \o <<":">> \o PadStart2(NumStr(date.getMinutes))
      \o <<":">> \o PadStart2(NumStr(date.getSeconds))

\* the "poor man's intl" template of srtToAss
fallbackFormat(date) ==
    days[date.getDay + 1] \o <<",", " ">> \o NumStr(date.getDate) \o <<" ">>
      \o months[date.getMonth + 1] \o <<" ">> \o NumStr(date.getFullYear) \o <<",", " ">>
      \o NumStr(date.getHours) \o <<":">> \o PadStart2(NumStr(date.getMinutes))
      \o <<":">> \o PadStart2(NumStr(date.getSeconds))

\* dateFormatter.format(date): Intl.DateTimeFormat('ro-Ro', {weekday: 'long',
\* year, month: 'long', day, hour, minute, second}) as ICU renders it,
\* "EEEE, d MMMM y, HH:mm:ss" with ICU's spelling of Saturday
dateFormatterFormat(date) ==
    (IF date.getDay = 6 THEN <<"s", "a_circ", "m", "b", "a_breve", "t", "a_breve">>
     ELSE days[date.getDay + 1])
      \o <<",", " ">> \o NumStr(date.getDate) \o <<" ">>
      \o months[date.getMonth + 1] \o <<" ">> \o NumStr(date.getFullYear) \o <<",", " ">>
      \o PadStart2(NumStr(date.getHours)) \o <<":">> \o PadStart2(NumStr(date.getMinutes))
      \o <<":">> \o PadStart2(NumStr(date.getSeconds))

\* the two branches that render a parsed date
FormatDate(date, localeSupported) ==
    IF localeSupported THEN dateFormatterFormat(date) ELSE fallbackFormat(date)

\* ------------------------------------------------------------------------
\* srtToAss, the body of the loop over the cue blocks
\* ------------------------------------------------------------------------

RECURSIVE FindSpace(_, _)
FindSpace(s, i) == IF i > Len(s) THEN 0 ELSE IF IsSpace(s[i]) THEN i ELSE FindSpace(s, i + 1)

RECURSIVE SplitSpaces(_)
\* String.prototype.split(/\s+/)
SplitSpaces(s) ==
    LET i == FindSpace(s, 1)
    IN  IF i = 0 THEN <<s>>
        ELSE <<SubSeq(s, 1, i - 1)>> \o SplitSpaces(From(s, SkipSpaces(s, i)))

RECURSIVE FindNonDigit(_, _)
FindNonDigit(s, i) ==
    IF i > Len(s) THEN 0 ELSE IF ~IsDigit(s[i]) THEN i ELSE FindNonDigit(s, i + 1)

RECURSIVE SplitNonDigits(_)
\* String.prototype.split(/\D/)
SplitNonDigits(s) ==
    LET i == FindNonDigit(s, 1)
    IN  IF i = 0 THEN <<s>>
        ELSE <<SubSeq(s, 1, i - 1)>> \o SplitNonDigits(From(s, i + 1))

\* Array.prototype.reverse
Reverse(ss) == [k \in 1..Len(ss) |-> ss[Len(ss) + 1 - k]]

lineTemplate ==
    <<"D", "i", "a", "l", "o", "g", "u", "e", ":", " ", "0", ",", "{", "s",
    "t", "a", "r", "t", "}", ",", "{", "e", "n", "d", "}", ",", "D", "e",
    "f", "a", "u", "l", "t", ",", ",", "0", ",", "0", ",", "0", ",", ",",
    "{", "t", "e", "x", "t", "}">>

\* the text of undefined inside a template literal
UndefinedText == <<"u", "n", "d", "e", "f", "i", "n", "e", "d">>

\* a re-encoding that turns every comma of the time code into a period
ReencodeTimeEveryComma(t) ==
    Slice1m1([k \in 1..Len(t) |-> IF t[k] = "," THEN "." ELSE t[k]])

\* a re-encoding that keeps every character of the time code
ReencodeTimeUnsliced(t) == ReplaceFirst(t, <<",">>, <<".">>)

\* startTime.replace(',', '.').slice(1, -1)
ReencodeTime(t) == Slice1m1(ReplaceFirst(t, <<",">>, <<".">>))

\* the string the second parse attempt reads: the first token of the content
\* split at its non-digits, reversed and joined with hyphens, a space, then
\* the second token (the text "undefined" when there is none); the content
\* as it is when it starts with whitespace
RetryString(dateTimeString) ==
    LET parts == SplitSpaces(dateTimeString)
        dateString == parts[1]
        timeString == IF Len(parts) >= 2 THEN parts[2] ELSE UndefinedText
    IN  IF Len(dateString) > 0
        THEN JoinStr(Reverse(SplitNonDigits(dateString)), <<"-">>) \o <<" ">> \o timeString
        ELSE dateTimeString

\* one parse attempt: if (Date.parse(str)) { date = new Date(str); newDateText
\* = the formatted date }, '' when the string is no date
TryDate(f, localeSupported, tz) ==
    IF Truthy(f, tz) THEN FormatDate(DateOfFields(f, tz), localeSupported) ELSE <<>>

\* the second attempt is made only when the first one fails
FirstOr(first, second) == IF Len(first) > 0 THEN first ELSE second

\* newDateText for the content of the first bracketed span: the formatted
\* date of the first parse attempt that succeeds, '' when neither does
NewDateText(dateTimeString, localeSupported, tz) ==
    FirstOr(TryDate(ParseFields(dateTimeString), localeSupported, tz),
            TryDate(ParseFields(RetryString(dateTimeString)), localeSupported, tz))

\* a replacement that is made whether or not a date was read
ReplaceDateAlways(text, m, newDateText) ==
    [text |-> dateRegexReplace(text, 1, newDateText), lastIndex |-> 0]

\* if (newDateText.length) textLines = textLines.replace(dateRegex, newDateText)
\* and what is left in dateRegex.lastIndex: replace leaves 0, the exec that
\* is not followed by a replace leaves the end of its match
ReplaceDate(text, m, newDateText) ==
    IF Len(newDateText) > 0
    THEN [text |-> dateRegexReplace(text, 1, newDateText), lastIndex |-> 0]
    ELSE [text |-> text, lastIndex |-> m.end]

\* dateTimeString = (dateRegex.exec(textLines) || ['', ''])[1] and the branch
\* if (dateTimeString.length)
DateStepAt(text, m, localeSupported, tz) ==
    IF m.found /\ Len(DateGroup(text, m)) > 0
    THEN ReplaceDate(text, m, NewDateText(DateGroup(text, m), localeSupported, tz))
    ELSE [text |-> text, lastIndex |-> 0]

\* the cursors of the two regular expressions of the call
VARIABLES
    timeCodeLastIndex,  \* timeCodeRegex.lastIndex
    dateLastIndex       \* dateRegex.lastIndex

\* a loop body that leaves a cursor where the pass before it left it
KeepLastIndex(lastIndex) == lastIndex

\* timeCodeRegex.lastIndex = 0 and dateRegex.lastIndex = 0: each pass of the
\* loop sets the cursor of a regex back before its first exec
ResetLastIndex(lastIndex) == 0

\* "get date and time": the text with its bracketed spans replaced when the
\* first one holds a date, and the cursor of dateRegex afterwards
DateStep(text, localeSupported, tz) ==
    DateStepAt(text, dateRegexExec(text, ResetLastIndex(dateLastIndex)), localeSupported, tz)

NormalizeDate(text, localeSupported, tz) == DateStep(text, localeSupported, tz).text

\* a stripping that takes the token and leaves the whitespace before it
StripSpeedKeepSpace(text) ==
    IF speedRegexReplace(text, 1) = text THEN text ELSE speedRegexReplace(text, 1) \o <<" ">>

\* "remove superfluous 0MPH && 0KM/H speeds"
StripSpeed(text) == speedRegexReplace(text, 1)

\* lineTemplate.replace('{start}', ..).replace('{end}', ..).replace('{text}', ..) + '\n'
DialogueLine(newStartTime, newEndTime, text) ==
    ReplaceFirst(
        ReplaceFirst(
            ReplaceFirst(lineTemplate, <<"{", "s", "t", "a", "r", "t", "}">>, newStartTime),
            <<"{", "e", "n", "d", "}">>, newEndTime),
        <<"{", "t", "e", "x", "t", "}">>, text) \o <<NL>>

\* [timesLine, ...textLines] = line.split(/\n+/gm)
TimesLineOf(line) == SplitNewlines(line)[1]

\* textLines.join('\\N')
TextLinesOf(line) == JoinStr(Tail(SplitNewlines(line)), <<BS, "N">>)

\* the locals at the end of a pass that appends its line
CueDone(timesLine, textLines, newStartTime, newEndTime, d, text, lastIndex) ==
    [threw |-> FALSE, timesLine |-> timesLine, textLines |-> textLines,
     newStartTime |-> newStartTime, newEndTime |-> newEndTime,
     dated |-> d.text, text |-> text,
     dialogue |-> DialogueLine(newStartTime, newEndTime, text),
     timeCodeLastIndex |-> lastIndex, dateLastIndex |-> d.lastIndex]

\* the locals when destructuring the null of a failed exec raises a
\* TypeError: nothing after the exec runs
CueThrown(timesLine, textLines, lastIndex) ==
    [threw |-> TRUE, timesLine |-> timesLine, textLines |-> textLines,
     newStartTime |-> <<>>, newEndTime |-> <<>>, dated |-> <<>>,
     text |-> <<>>, dialogue |-> <<>>,
     timeCodeLastIndex |-> lastIndex, dateLastIndex |-> 0]

\* the pass once both execs are made: m1 and m2 are their results
CueWith(timesLine, textLines, m1, m2, d) ==
    IF ~m1.found THEN CueThrown(timesLine, textLines, 0)
    ELSE IF ~m2.found THEN CueThrown(timesLine, textLines, 0)
    ELSE CueDone(timesLine, textLines,
                 ReencodeTime(MatchText(timesLine, m1)),
                 ReencodeTime(MatchText(timesLine, m2)),
                 d, StripSpeed(d.text), LastIndexAfter(m2))

\* timeCodeRegex.lastIndex = 0; then two execs on the times line, the
\* second one from where the first one stopped
CueAt(timesLine, textLines, m1, localeSupported, tz) ==
    CueWith(timesLine, textLines, m1, timeCodeRegexExec(timesLine, LastIndexAfter(m1)),
            DateStep(textLines, localeSupported, tz))

\* one pass of the loop body over the block line
ProcessCue(line, localeSupported, tz) ==
    CueAt(TimesLineOf(line), TextLinesOf(line),
          timeCodeRegexExec(TimesLineOf(line), ResetLastIndex(timeCodeLastIndex)),
          localeSupported, tz)

\* ------------------------------------------------------------------------
\* Source files: cue blocks joined by the blank-line separator
\* ------------------------------------------------------------------------

TimesOK ==
    <<"0", "0", ":", "0", "0", ":", "0", "1", ",", "0", "0", "0", " ", "-",
    "-", ">", " ", "0", "0", ":", "0", "0", ":", "0", "4", ",", "0", "0",
    "0">>

\* the plain cue: index line, times line, one text line
BlockHi ==
    <<"1", NL>> \o TimesOK \o <<NL, "H", "i">>

\* a cue that carries no index line
BlockNoIndex ==
    TimesOK \o <<NL, "H", "i">>

BlockKmh ==
    <<"2", NL>> \o TimesOK \o <<NL, "S", "p", "e", "e", "d", " ", "0", "K",
    "M", "/", "H">>

BlockMph ==
    <<"3", NL>> \o TimesOK \o <<NL, "S", "p", "e", "e", "d", " ", "0", "M",
    "P", "H">>

\* a speed without the zero
BlockMphNoZero ==
    <<"4", NL>> \o TimesOK \o <<NL, "S", "p", "e", "e", "d", " ", "M", "P",
    "H">>

\* a speed in lower case after two spaces, and a unit with no speed
BlockLower ==
    <<"4", NL>> \o TimesOK \o <<NL, "G", "o", " ", " ", "0", "k", "m",
    "p", "/", "h", " ", "o", "n", " ", "M", "H">>

\* a later text line of digits only
BlockDigitsText ==
    <<"5", NL>> \o TimesOK \o <<NL, "H", "i", NL, "4", "2", NL, "Y", "o">>

\* two bracketed spans, the first one a date
BlockTwoSpans ==
    <<"6", NL>> \o TimesOK \o <<NL, "[", "2", "0", "2", "0", "-", "0", "1",
    "-", "0", "7", " ", "0", "8", ":", "5", "6", ":", "4", "5", "]", " ",
    "[", "c", "a", "m", "]">>

\* a times line with one time code
BlockOneToken ==
    <<"7", NL, "0", "0", ":", "0", "0", ":", "0", "1", ",", "0", "0", "0", NL, "H", "i">>

\* a times line with no time code
BlockNoToken ==
    <<"8", NL, "-", "-", ">", NL, "H", "i">>

\* no text line after the times line
BlockNoText ==
    <<"9", NL>> \o TimesOK

\* an index line followed by a line of digits where the times line belongs
BlockDigitsTimes ==
    <<"1", NL, "5", NL>> \o TimesOK \o <<NL, "H", "i">>

\* a block of one line feed, as a file that ends in three line feeds leaves
\* after its last separator
BlockNewline ==
    <<NL>>

\* the empty block, as a file that ends in a blank line leaves after its
\* last separator
BlockEmpty ==
    <<>>

Blocks ==
    {BlockHi, BlockNoIndex, BlockKmh, BlockMph, BlockMphNoZero, BlockLower,
     BlockDigitsText, BlockTwoSpans, BlockOneToken, BlockNoToken,
     BlockNoText, BlockDigitsTimes, BlockNewline, BlockEmpty}

\* the most blocks a source file of the model holds
MaxBlocks == 2

\* the contents a readable source file can have
Sources ==
    UNION { { JoinStr(choice, <<NL, NL>>) : choice \in [1..n -> Blocks] } : n \in 0..MaxBlocks }

\* ------------------------------------------------------------------------
\* Paths and the file system
\* ------------------------------------------------------------------------

RECURSIVE LastIndexOf(_, _, _)
\* the last position <= i of s that holds c, 0 if none
LastIndexOf(s, c, i) ==
    IF i < 1 THEN 0 ELSE IF s[i] = c THEN i ELSE LastIndexOf(s, c, i - 1)

\* path.basename
PathBasename(p) == From(p, LastIndexOf(p, "/", Len(p)) + 1)

\* path.extname: from the last dot of the base name on, '' when there is no
\* dot or the base name starts with its only dot
PathExtname(p) ==
    LET b == PathBasename(p)
        k == LastIndexOf(b, ".", Len(b))
    IN  IF k <= 1 THEN <<>> ELSE From(b, k)

\* the name of the written file inside destinationDir:
\* path.basename(srtFile).replace(path.extname(srtFile), '.ass')
AssFileName(path) ==
    ReplaceFirst(PathBasename(path), PathExtname(path), <<".", "a", "s", "s">>)

\* assPreamble, the constant header text, kept as one symbol
assPreamble == <<"[Script Info] .. [Events] Format: .. Text">>

\* getPathInfo(srtFile) for a path in state f
getPathInfo(f) ==
    [exists |-> f.exists, isDirectory |-> f.exists /\ ~f.isFile,
     isFile |-> f.exists /\ f.isFile]

\* a split that hands the blocks over last to first
SplitBlocksReversed(srt) ==
    Reverse(SelectSeq(SplitStr(srt, <<NL, NL>>), LAMBDA line : Len(line) > 0))

\* srt.split('\n\n').filter(line => line.length)
SplitBlocks(srt) == SelectSeq(SplitStr(srt, <<NL, NL>>), LAMBDA line : Len(line) > 0)

\* .map(sub => sub.replace(/^[\d]+$/gm, '').trim())
CleanBlock(sub) == Trim(IndexLineReplace(sub, 1))

\* srtData
SrtData(srt) == [k \in 1..Len(SplitBlocks(srt)) |-> CleanBlock(SplitBlocks(srt)[k])]

\* a write that adds to the file that is there
WriteFileAppend(dir, name, data) ==
    [n \in DOMAIN dir \cup {name} |->
        IF n # name THEN dir[n]
        ELSE IF name \in DOMAIN dir THEN dir[name] \o data ELSE data]

\* fs.writeFileSync(path.join(destinationDir, name), data): the file is
\* created or replaced as a whole
WriteFile(dir, name, data) ==
    [n \in (DOMAIN dir) \cup {name} |-> IF n = name THEN data ELSE dir[n]]

SrtName == <<"a", ".", "s", "r", "t">>
OtherName == <<"k", "e", "e", "p", ".", "m", "p", "4">>

\* a destination directory that holds nothing
EmptyDir == [n \in {} |-> <<>>]

\* a destination directory left by an earlier run: the .ass file of the
\* source with another content, and a file the transform has no business with
UsedDir ==
    [n \in {AssFileName(SrtName), OtherName} |->
        IF n = OtherName THEN <<"v", "i", "d", "e", "o">>
        ELSE assPreamble \o <<NL, "o", "l", "d", NL>>]

NoCue ==
    [threw |-> FALSE, timesLine |-> <<>>, textLines |-> <<>>, newStartTime |-> <<>>,
     newEndTime |-> <<>>, dated |-> <<>>, text |-> <<>>, dialogue |-> <<>>,
     timeCodeLastIndex |-> 0, dateLastIndex |-> 0]

\* ------------------------------------------------------------------------
\* One call srtToAss(srtFile, destinationDir)
\* ------------------------------------------------------------------------

VARIABLES
    srtFile,            \* the path argument
    source,             \* what is at that path: exists, isFile, content
    destDir,            \* the files of destinationDir: name -> content
    destDir0,           \* destinationDir as it was when the call started
    isLocaleSupported,  \* Intl.DateTimeFormat.supportedLocalesOf('ro-RO')[0] === 'ro-RO'
    tz,                 \* the local offset from UTC of the host, in minutes
    pc,                 \* "call", "forEach", "done", "returned", "thrown"
    srtData,            \* the cleaned blocks
    index,              \* the block forEach is at (1-based)
    ass,                \* the document accumulated so far
    cue,                \* the locals of the last pass of the loop body
    result,             \* the value returned, "undefined" or the written name
    todo,               \* the paths the caller still has to hand to srtToAss
    prev,               \* the call before this one: its arguments and its outcome
    main,               \* the process: its arguments, the statement main is at, its output
    run                 \* one run of the orchestrator: its phase, the files, what it did

\* no call was made before the first one
NoPrev ==
    [pc |-> "none", result |-> "none", srtFile |-> <<>>,
     source |-> [exists |-> FALSE, isFile |-> FALSE, content |-> <<>>],
     destDir0 |-> EmptyDir, destDir |-> EmptyDir]

\* no run of the orchestrator is under way
IdleRun ==
    [pc |-> "none", sourceDir |-> "none", destinationDir |-> "none",
     fs0 |-> [p \in {} |-> "old"], fs |-> [p \in {} |-> "old"],
     videoFiles |-> <<>>, subtitleFiles |-> <<>>, mkvFiles |-> <<>>,
     i |-> 0, events |-> <<>>, deleted |-> {}]

\* the entry point is not part of a call
NoMain ==
    [rev |-> "none", argv |-> <<>>, pc |-> "none",
     options |-> [throws |-> FALSE, values |-> <<>>, invalid |-> <<>>, unknown |-> <<>>,
                  paramsOK |-> FALSE],
     out |-> <<>>, exitCode |-> -1]

vars ==
    <<srtFile, source, destDir, destDir0, isLocaleSupported, tz, pc, srtData, index,
      ass, cue, timeCodeLastIndex, dateLastIndex, result, todo, prev, main, run>>

Init ==
    /\ srtFile = SrtName
    /\ source \in
         { [exists |-> TRUE, isFile |-> TRUE, content |-> c] : c \in Sources }
           \cup { [exists |-> FALSE, isFile |-> FALSE, content |-> <<>>],
                  [exists |-> TRUE, isFile |-> FALSE, content |-> <<>>] }
    /\ destDir \in {EmptyDir, UsedDir}
    /\ destDir0 = destDir
    /\ isLocaleSupported \in BOOLEAN
    /\ tz \in {120}
    /\ pc = "call"
    /\ srtData = <<>>
    /\ index = 0
    /\ ass = <<>>
    /\ cue = NoCue
    /\ timeCodeLastIndex = 0
    /\ dateLastIndex = 0
    /\ result = "none"
    /\ todo = <<>>
    /\ prev = NoPrev
    /\ main = NoMain
    /\ run = IdleRun

\* a guard that lets a directory through
UnreadableMissingOnly(f) == ~getPathInfo(f).exists

\* the guard at the head of srtToAss
Unreadable(f) == ~getPathInfo(f).exists \/ ~getPathInfo(f).isFile

\* if (!fileInfo.exists || !fileInfo.isFile) return;
ReturnEarly ==
    /\ pc = "call"
    /\ Unreadable(source)
    /\ pc' = "returned"
    /\ result' = "undefined"
    /\ UNCHANGED <<run, main, todo, prev, srtFile, source, destDir, destDir0, isLocaleSupported, tz, srtData,
                   index, ass, cue, timeCodeLastIndex, dateLastIndex>>

\* the file is read and split, the document starts with the preamble
ReadSource ==
    /\ pc = "call"
    /\ ~Unreadable(source)
    /\ srtData' = SrtData(source.content)
    /\ ass' = assPreamble \o <<NL>>
    /\ index' = 1
    /\ pc' = "forEach"
    /\ UNCHANGED <<run, main, todo, prev, srtFile, source, destDir, destDir0, isLocaleSupported, tz, cue,
                   timeCodeLastIndex, dateLastIndex, result>>

\* one pass of srtData.forEach that appends a dialogue line
CueLine ==
    /\ pc = "forEach"
    /\ index <= Len(srtData)
    /\ LET c == ProcessCue(srtData[index], isLocaleSupported, tz)
       IN  /\ ~c.threw
           /\ cue' = c
           /\ ass' = ass \o c.dialogue
           /\ timeCodeLastIndex' = c.timeCodeLastIndex
           /\ dateLastIndex' = c.dateLastIndex
    /\ index' = index + 1
    /\ UNCHANGED <<run, main, todo, prev, srtFile, source, destDir, destDir0, isLocaleSupported, tz, pc,
                   srtData, result>>

\* one pass of srtData.forEach in which an exec finds no time code: the
\* TypeError leaves forEach and srtToAss
CueThrows ==
    /\ pc = "forEach"
    /\ index <= Len(srtData)
    /\ LET c == ProcessCue(srtData[index], isLocaleSupported, tz)
       IN  /\ c.threw
           /\ cue' = c
           /\ timeCodeLastIndex' = c.timeCodeLastIndex
    /\ pc' = "thrown"
    /\ UNCHANGED <<run, main, todo, prev, srtFile, source, destDir, destDir0, isLocaleSupported, tz, srtData,
                   index, ass, dateLastIndex, result>>

\* fs.writeFileSync(assFile, ass, 'utf8'); return assFile;
WriteAss ==
    /\ pc = "forEach"
    /\ index > Len(srtData)
    /\ destDir' = WriteFile(destDir, AssFileName(srtFile), ass)
    /\ result' = AssFileName(srtFile)
    /\ pc' = "done"
    /\ UNCHANGED <<run, main, todo, prev, srtFile, source, destDir0, isLocaleSupported, tz, srtData, index,
                   ass, cue, timeCodeLastIndex, dateLastIndex>>

Next == ReturnEarly \/ ReadSource \/ CueLine \/ CueThrows \/ WriteAss

Spec == Init /\ [][Next]_vars

\* ------------------------------------------------------------------------
\* Files of one cue: bracketed annotations and time codes of many shapes
\* ------------------------------------------------------------------------

\* a block with the times line TimesOK and the given text
CueBlock(text) == <<"1", NL>> \o TimesOK \o <<NL>> \o text

\* a block with the given times line and the text Hi
TimesBlock(timesLine) == <<"1", NL>> \o timesLine \o <<NL, "H", "i">>

\* day.month.year with a day that is a month too
TextDayFirst ==
    <<"[", "0", "7", ".", "0", "1", ".", "2", "0", "2", "0", " ", "0", "8",
    ":", "5", "6", ":", "4", "5", "]">>

\* day.month.year with a day that is no month
TextXmas ==
    <<"[", "2", "5", ".", "1", "2", ".", "2", "0", "1", "9", " ", "1", "0",
    ":", "1", "1", ":", "1", "2", "]">>

\* the same between other words
TextNewYear ==
    <<"a", " ", "[", "3", "1", ".", "1", "2", ".", "2", "0", "1", "9", " ",
    "2", "3", ":", "5", "9", ":", "5", "9", "]", " ", "b">>

\* slashes for dots
TextSlashes ==
    <<"[", "1", "3", "/", "0", "1", "/", "2", "0", "2", "0", " ", "0", "8",
    ":", "0", "0", ":", "0", "0", "]">>

\* a date and no time
TextDateOnly ==
    <<"[", "2", "5", ".", "1", "2", ".", "2", "0", "1", "9", "]">>

\* year-month-day
TextIso ==
    <<"[", "2", "0", "2", "0", "-", "0", "1", "-", "0", "7", " ", "0", "8",
    ":", "5", "6", ":", "4", "5", "]">>

\* no digit and no whitespace between the brackets
TextCam ==
    <<"o", "n", " ", "[", "c", "a", "m", "]", " ", "1">>

\* whitespace only between the brackets
TextBlank ==
    <<"[", " ", "]", " ", "x">>

\* a bracket that is not closed, and brackets with nothing between them
TextOpen ==
    <<"H", "i", " ", "[", "]", " ", "[", "x">>

\* time codes of one character
TimesShort ==
    <<"5", " ", "-", "-", ">", " ", "7">>

\* time codes without the leading zero, the second with one decimal
TimesNarrow ==
    <<"1", ":", "0", "2", ":", "0", "3", ",", "4", "5", "6", " ", "-", "-",
    ">", " ", "1", ":", "0", "2", ":", "0", "4", ",", "5">>

\* a time code with two commas and one with none
TimesCommas ==
    <<"0", "0", ":", "0", "0", ":", "0", "1", ",", "0", "0", "0", ",", "9",
    " ", "-", "-", ">", " ", "0", "0", ":", "0", "0", ":", "0", "2">>

\* three time codes
TimesThree ==
    <<"0", "0", ":", "0", "0", ":", "0", "1", ",", "0", "0", "0", " ", "-",
    "-", ">", " ", "0", "0", ":", "0", "0", ":", "0", "4", ",", "0", "0",
    "0", " ", "0", "0", ":", "0", "0", ":", "0", "9", ",", "0", "0", "0">>

CueTexts ==
    {TextDayFirst, TextXmas, TextNewYear, TextSlashes, TextDateOnly, TextIso,
     TextCam, TextBlank, TextOpen}

CueTimes == {TimesShort, TimesNarrow, TimesCommas, TimesThree}

\* the contents of the files of one cue, one of them with no time code
CueSources ==
    { CueBlock(t) : t \in CueTexts } \cup { TimesBlock(l) : l \in CueTimes }
        \cup {BlockHi, BlockNoToken}

\* a call on a file of one cue
InitCues ==
    /\ srtFile = SrtName
    /\ source \in
         { [exists |-> TRUE, isFile |-> TRUE, content |-> c] : c \in CueSources }
           \cup { [exists |-> FALSE, isFile |-> FALSE, content |-> <<>>],
                  [exists |-> TRUE, isFile |-> FALSE, content |-> <<>>] }
    /\ destDir \in {EmptyDir, UsedDir}
    /\ destDir0 = destDir
    /\ isLocaleSupported \in BOOLEAN
    /\ tz \in {120}
    /\ pc = "call"
    /\ srtData = <<>>
    /\ index = 0
    /\ ass = <<>>
    /\ cue = NoCue
    /\ timeCodeLastIndex = 0
    /\ dateLastIndex = 0
    /\ result = "none"
    /\ todo = <<>>
    /\ prev = NoPrev
    /\ main = NoMain
    /\ run = IdleRun

SpecCues == InitCues /\ [][Next]_vars

\* ------------------------------------------------------------------------
\* The caller: srtToAss on one path after the other, the subtitle files in
\* the directory the .ass files are written to
\* ------------------------------------------------------------------------

NameA == <<"a", ".", "s", "r", "t">>
NameB == <<"b", ".", "s", "r", "t">>
NameTwice == <<"a", ".", "s", "r", "t", ".", "s", "r", "t">>
NameAss == <<"a", ".", "a", "s", "s", ".", "s", "r", "t">>
\* the .srt beside a video file that has none
NameGone == <<"g", "o", "n", "e", ".", "s", "r", "t">>

BatchNames == {NameA, NameB, NameTwice, NameAss, NameGone}

\* a file of two cues with a span each, the first one holds no date
TwoCues == CueBlock(TextCam) \o <<NL, NL>> \o CueBlock(TextIso)

BatchContents == {BlockHi, TwoCues, BlockNoToken}

\* what getPathInfo and readFileSync find at a path of the directory
FileAt(dir, name) ==
    IF name \in DOMAIN dir
    THEN [exists |-> TRUE, isFile |-> TRUE, content |-> dir[name]]
    ELSE [exists |-> FALSE, isFile |-> FALSE, content |-> <<>>]

\* the directory that holds the two subtitle files, each one if it exists
DirOf(n1, c1, n2, c2) ==
    [n \in {n1, n2} \ {NameGone} |-> IF n = n1 THEN c1 ELSE c2]

\* the first call of two
InitBatch ==
    /\ \E n1 \in BatchNames, n2 \in BatchNames :
         \E c1 \in BatchContents, c2 \in BatchContents :
            /\ srtFile = n1
            /\ todo = <<n2>>
            /\ destDir = DirOf(n1, c1, n2, c2)
    /\ source = FileAt(destDir, srtFile)
    /\ destDir0 = destDir
    /\ isLocaleSupported \in BOOLEAN
    /\ tz \in {120}
    /\ pc = "call"
    /\ srtData = <<>>
    /\ index = 0
    /\ ass = <<>>
    /\ cue = NoCue
    /\ timeCodeLastIndex = 0
    /\ dateLastIndex = 0
    /\ result = "none"
    /\ prev = NoPrev
    /\ main = NoMain
    /\ run = IdleRun

\* subtitleFiles.forEach: when a call has returned the next path is handed
\* to srtToAss, whose constants, the two regular expressions among them, are
\* made anew
NextFile ==
    /\ pc \in {"done", "returned"}
    /\ todo # <<>>
    /\ prev' = [pc |-> pc, result |-> result, srtFile |-> srtFile, source |-> source,
                destDir0 |-> destDir0, destDir |-> destDir]
    /\ srtFile' = Head(todo)
    /\ todo' = Tail(todo)
    /\ source' = FileAt(destDir, Head(todo))
    /\ destDir0' = destDir
    /\ pc' = "call"
    /\ srtData' = <<>>
    /\ index' = 0
    /\ ass' = <<>>
    /\ cue' = NoCue
    /\ timeCodeLastIndex' = 0
    /\ dateLastIndex' = 0
    /\ result' = "none"
    /\ UNCHANGED <<run, main, destDir, isLocaleSupported, tz>>

NextBatch == Next \/ NextFile

SpecBatch == InitBatch /\ [][NextBatch]_vars


\* ------------------------------------------------------------------------
\* The program entry: process.argv -> lib/parse-args -> the checks of main
\* Revision "A" is main of src/vconcat.js 449-472 with the parser of
\* src/unnamed/part_000; revision "B" is main of src/vconcat.js 718-735
\* with the parser of src/lib/parse-args.js 7-101.
\* ------------------------------------------------------------------------

Revisions == {"A", "B"}

\* JavaScript values of the options object
JsTrue == [type |-> "boolean", str |-> <<"t", "r", "u", "e">>]
JsFalse == [type |-> "boolean", str |-> <<"f", "a", "l", "s", "e">>]
JsNull == [type |-> "null", str |-> <<>>]
JsUndefined == [type |-> "undefined", str |-> <<>>]
JsString(s) == [type |-> "string", str |-> s]

\* ToBoolean
ToBoolean(v) == v = JsTrue \/ (v.type = "string" /\ v.str # <<>>)

\* an object is the sequence of its own properties in insertion order
HasKey(o, k) == \E i \in 1..Len(o) : o[i].key = k
ObjGet(o, k) ==
    IF HasKey(o, k) THEN o[CHOOSE i \in 1..Len(o) : o[i].key = k].value
    ELSE JsUndefined
ObjSet(o, k, v) ==
    IF HasKey(o, k)
    THEN [i \in 1..Len(o) |-> IF o[i].key = k THEN [key |-> k, value |-> v] ELSE o[i]]
    ELSE Append(o, [key |-> k, value |-> v])
ObjKeys(o) == [i \in 1..Len(o) |-> o[i].key]

RECURSIVE ObjAssign(_, _)
\* Object.assign(target, src)
ObjAssign(target, src) ==
    IF src = <<>> THEN target
    ELSE ObjAssign(ObjSet(target, Head(src).key, Head(src).value), Tail(src))

\* path.resolve(process.cwd())
cwd == <<"/", "w">>

defaults(rev) ==
    IF rev = "A"
    THEN << [key |-> <<"s", "o", "u", "r", "c", "e">>, value |-> JsString(cwd)],
            [key |-> <<"t", "a", "r", "g", "e", "t">>, value |-> JsString(cwd)],
            [key |-> <<"r", "e", "s", "i", "z", "e">>, value |-> JsString(<<"w", "3", "2", "0">>)],
            [key |-> <<"n", "o", "C", "o", "n", "c", "a", "t">>, value |-> JsFalse],
            [key |-> <<"k", "e", "e", "p">>, value |-> JsFalse],
            [key |-> <<"h", "e", "l", "p">>, value |-> JsFalse],
            [key |-> <<"v", "e", "r", "b", "o", "s", "e">>, value |-> JsFalse] >>
    ELSE << [key |-> <<"s", "o", "u", "r", "c", "e">>, value |-> JsString(cwd)],
            [key |-> <<"t", "a", "r", "g", "e", "t">>, value |-> JsString(cwd)],
            [key |-> <<"r", "e", "s", "i", "z", "e">>, value |-> JsString(<<"w", "3", "2", "0">>)],
            [key |-> <<"h", "e", "l", "p">>, value |-> JsFalse],
            [key |-> <<"d", "e", "b", "u", "g">>, value |-> JsFalse],
            [key |-> <<"n", "o", "C", "o", "n", "c", "a", "t">>, value |-> JsFalse] >>

shortOptions(rev) ==
    IF rev = "A"
    THEN << [key |-> <<"s">>, value |-> <<"s", "o", "u", "r", "c", "e">>],
            [key |-> <<"t">>, value |-> <<"t", "a", "r", "g", "e", "t">>],
            [key |-> <<"r">>, value |-> <<"r", "e", "s", "i", "z", "e">>],
            [key |-> <<"n">>, value |-> <<"n", "o", "C", "o", "n", "c", "a", "t">>],
            [key |-> <<"k">>, value |-> <<"k", "e", "e", "p">>],
            [key |-> <<"h">>, value |-> <<"h", "e", "l", "p">>],
            [key |-> <<"v">>, value |-> <<"v", "e", "r", "b", "o", "s", "e">>] >>
    ELSE << [key |-> <<"s">>, value |-> <<"s", "o", "u", "r", "c", "e">>],
            [key |-> <<"t">>, value |-> <<"t", "a", "r", "g", "e", "t">>],
            [key |-> <<"r">>, value |-> <<"r", "e", "s", "i", "z", "e">>],
            [key |-> <<"h">>, value |-> <<"h", "e", "l", "p">>],
            [key |-> <<"d">>, value |-> <<"d", "e", "b", "u", "g">>],
            [key |-> <<"n">>, value |-> <<"n", "o", "C", "o", "n", "c", "a", "t">>] >>

validParams(rev) == ObjKeys(defaults(rev))

boolParams(rev) ==
    IF rev = "A"
    THEN << <<"n", "o", "C", "o", "n", "c", "a", "t">>, <<"n">>, <<"k", "e", "e", "p">>, <<"k">>, <<"h", "e", "l", "p">>, <<"h">>,
            <<"v", "e", "r", "b", "o", "s", "e">>, <<"v">> >>
    ELSE << <<"h", "e", "l", "p">>, <<"h">>, <<"d", "e", "b", "u", "g">>, <<"d">>, <<"n", "o", "C", "o", "n", "c", "a", "t">>, <<"n">> >>

\* Array.prototype.includes on an array of strings
ArrIncludes(arr, x) == \E i \in 1..Len(arr) : arr[i] = x

LowerLetters == <<"a", "b", "c", "d", "e", "f", "g", "h", "i", "j", "k", "l", "m", "n", "o", "p", "q", "r", "s", "t", "u", "v", "w", "x", "y", "z">>
UpperLetters == <<"A", "B", "C", "D", "E", "F", "G", "H", "I", "J", "K", "L", "M", "N", "O", "P", "Q", "R", "S", "T", "U", "V", "W", "X", "Y", "Z">>

\* String.prototype.toLocaleUpperCase of one character, in a host locale
\* without special casing rules
toLocaleUpperCase(c) ==
    IF \E i \in 1..26 : LowerLetters[i] = c
    THEN UpperLetters[CHOOSE i \in 1..26 : LowerLetters[i] = c]
    ELSE c

RECURSIVE StripDashes(_)
\* .replace(/^-+/g, '')
StripDashes(s) == IF s # <<>> /\ Head(s) = "-" THEN StripDashes(Tail(s)) ELSE s

\* the pieces of the name between dashes
NameParts(name) == SplitStr(StripDashes(Trim(name)), <<"-">>)

\* str[0] is undefined for an empty piece after the first, and
\* undefined.toLocaleUpperCase() throws a TypeError
CanonicalThrows(name) ==
    \E i \in 2..Len(NameParts(name)) : NameParts(name)[i] = <<>>

CamelCase(parts) ==
    [i \in 1..Len(parts) |->
        IF i = 1 THEN parts[i]
        ELSE <<toLocaleUpperCase(parts[i][1])>> \o Tail(parts[i])]

getCanonicalParamName(rev, name) ==
    LET newName == JoinStr(CamelCase(NameParts(name)), <<>>)
    IN  IF HasKey(shortOptions(rev), newName)
        THEN ObjGet(shortOptions(rev), newName)
        ELSE newName

falsy == << <<"n", "u", "l", "l">>, <<"n", "i", "l">>, <<"n", "o">>, <<"o", "f", "f">>, <<"0">> >>

ValuePairOf(rev, split, argName, named) ==
    IF Len(split) = 1
    THEN IF ArrIncludes(boolParams(rev), argName)
         THEN [throws |-> FALSE, key |-> argName, value |-> JsTrue, valid |-> named]
         ELSE [throws |-> FALSE, key |-> argName,
               value |-> IF rev = "A" THEN JsString(<<"m", "u", "s", "t", " ", "h", "a", "v", "e", " ", "a", " ", "v", "a", "l", "u", "e">>) ELSE JsNull,
               valid |-> FALSE]
    ELSE IF Len(split) = 2
    THEN IF ArrIncludes(boolParams(rev), argName)
         THEN [throws |-> FALSE, key |-> argName,
               value |-> IF rev = "B" /\ ArrIncludes(falsy, split[2])
                         THEN JsFalse ELSE JsTrue,
               valid |-> named]
         ELSE [throws |-> FALSE, key |-> argName, value |-> JsString(split[2]),
               valid |-> named]
    ELSE [throws |-> FALSE, key |-> argName,
          value |-> JsString(<<"u", "n", "s", "u", "p", "p", "o", "r", "t", "e", "d", " ", "c", "h", "a", "r", "a", "c", "t", "e", "r", " ", "\"", "=", "\"">>), valid |-> FALSE]

getParamValuePair(rev, str) ==
    IF CanonicalThrows(SplitStr(str, <<"=">>)[1])
    THEN [throws |-> TRUE, key |-> <<>>, value |-> JsUndefined, valid |-> FALSE]
    ELSE ValuePairOf(rev, SplitStr(str, <<"=">>),
                     getCanonicalParamName(rev, SplitStr(str, <<"=">>)[1]),
                     ArrIncludes(ObjKeys(defaults(rev)) \o ObjKeys(shortOptions(rev)),
                                 getCanonicalParamName(rev, SplitStr(str, <<"=">>)[1])))

\* one pass of argsList.forEach over acc = the three collections
ArgStep(rev, acc, p) ==
    IF acc.throws \/ p.throws THEN [acc EXCEPT !.throws = TRUE]
    ELSE IF p.valid THEN [acc EXCEPT !.parsed = ObjSet(@, p.key, p.value)]
    ELSE IF ArrIncludes(validParams(rev), p.key)
    THEN [acc EXCEPT !.invalid = ObjSet(@, p.key, p.value)]
    ELSE [acc EXCEPT !.unknown = Append(@, p.key)]

RECURSIVE ArgsForEach(_, _, _)
ArgsForEach(rev, argsList, acc) ==
    IF argsList = <<>> THEN acc
    ELSE ArgsForEach(rev, Tail(argsList),
                     ArgStep(rev, acc, getParamValuePair(rev, Head(argsList))))

\* module.exports of the parser; no accepted name is "invalid", "unknown" or
\* "paramsOK", so these three stay apart from the option values
ExportsOf(rev, acc) ==
    [throws |-> acc.throws,
     values |-> ObjAssign(defaults(rev), acc.parsed),
     invalid |-> acc.invalid,
     unknown |-> acc.unknown,
     paramsOK |-> acc.unknown = <<>> /\ acc.invalid = <<>>]

ParseArgs(rev, argsList) ==
    ExportsOf(rev, ArgsForEach(rev, argsList,
        [throws |-> FALSE, parsed |-> <<>>, invalid |-> <<>>, unknown |-> <<>>]))

NoOptions ==
    [throws |-> FALSE, values |-> <<>>, invalid |-> <<>>, unknown |-> <<>>,
     paramsOK |-> FALSE]

\* the statements of main in the order of each revision: revision B loads the
\* parser with its other imports, before the intro text
StepsOf(rev) ==
    IF rev = "A" THEN <<"intro", "require", "debug", "help", "paramsOK", "exit">>
    ELSE <<"require", "intro", "paramsOK", "debug", "help", "exit">>

StepAfter(rev, step) ==
    LET i == CHOOSE k \in 1..Len(StepsOf(rev)) : StepsOf(rev)[k] = step
    IN  IF i = Len(StepsOf(rev)) THEN "exited" ELSE StepsOf(rev)[i + 1]

\* console.log / console.debug / console.error of one text
Printed(stream, what, detail) == [stream |-> stream, what |-> what, detail |-> detail]

\* abort(message): console.error(message), process.exit(1)
Abort(m, what, detail) ==
    [m EXCEPT !.out = Append(@, Printed("stderr", what, detail)),
              !.exitCode = 1, !.pc = "exited"]

\* printHelpMessage(): abort(usage)
PrintHelpMessage(m) == Abort(m, "usage", <<>>)

Args ==
    { <<"-", "h">>,
      <<"-", "-", "h", "e", "l", "p">>,
      <<"-", "-", "h", "e", "l", "p", "=", "o", "f", "f">>,
      <<"-", "s", "=", "x">>,
      <<"-", "-", "n", "o", "-", "c", "o", "n", "c", "a", "t">>,
      <<"-", "v">>,
      <<"-", "r">>,
      <<"-", "-", "b", "o", "g", "u", "s">>,
      <<"-", "-", "n", "o", "-">>,
      <<"-", "s", "=", "a", "=", "b">>,
      <<"=", "x">>,
      <<"-", "-", "n", "o", "-", "-", "c", "o", "n", "c", "a", "t">>,
      <<"-", "n", "=", "0">>,
      <<>> }

MaxArgs == 2

ArgLists == UNION { [1..n -> Args] : n \in 0..MaxArgs }

InitMain ==
    /\ main \in { [rev |-> r, argv |-> a, pc |-> StepsOf(r)[1], options |-> NoOptions,
                   out |-> <<>>, exitCode |-> -1] : r \in Revisions, a \in ArgLists }
    /\ run = IdleRun
    /\ srtFile = SrtName
    /\ source = [exists |-> FALSE, isFile |-> FALSE, content |-> <<>>]
    /\ destDir = EmptyDir
    /\ destDir0 = destDir
    /\ isLocaleSupported = TRUE
    /\ tz = 120
    /\ pc = "call"
    /\ srtData = <<>>
    /\ index = 0
    /\ ass = <<>>
    /\ cue = NoCue
    /\ timeCodeLastIndex = 0
    /\ dateLastIndex = 0
    /\ result = "none"
    /\ todo = <<>>
    /\ prev = NoPrev

SrtToAssIdle ==
    UNCHANGED <<run, srtFile, source, destDir, destDir0, isLocaleSupported, tz, pc, srtData,
                index, ass, cue, timeCodeLastIndex, dateLastIndex, result, todo, prev>>

\* console.log(introText)
MainIntro ==
    /\ main.pc = "intro"
    /\ main' = [main EXCEPT !.out = Append(@, Printed("stdout", "introText", <<>>)),
                            !.pc = StepAfter(main.rev, "intro")]
    /\ SrtToAssIdle

\* require('./lib/parse-args'); an exception of the parser is uncaught
MainRequire ==
    /\ main.pc = "require"
    /\ main' = IF ParseArgs(main.rev, main.argv).throws
               THEN Abort(main, "TypeError", <<>>)
               ELSE [main EXCEPT !.options = ParseArgs(main.rev, main.argv),
                                 !.pc = StepAfter(main.rev, "require")]
    /\ SrtToAssIdle

\* debug('Options:', global.options) in revision A,
\* console.debug({ params }) in revision B
MainDebug ==
    /\ main.pc = "debug"
    /\ main' = [main EXCEPT
                  !.out = IF main.rev = "B"
                             \/ ( /\ ToBoolean(ObjGet(main.options.values, <<"v", "e", "r", "b", "o", "s", "e">>))
                                  /\ ~ToBoolean(ObjGet(main.options.values, <<"h", "e", "l", "p">>)) )
                          THEN Append(@, Printed("stdout", "options", <<>>))
                          ELSE @,
                  !.pc = StepAfter(main.rev, "debug")]
    /\ SrtToAssIdle

\* if(options.help){ printHelpMessage(); }
MainHelp ==
    /\ main.pc = "help"
    /\ main' = IF ToBoolean(ObjGet(main.options.values, <<"h", "e", "l", "p">>))
               THEN PrintHelpMessage(main)
               ELSE [main EXCEPT !.pc = StepAfter(main.rev, "help")]
    /\ SrtToAssIdle

\* if(!options.paramsOK){ ... abort(...) ... }
MainParamsOK ==
    /\ main.pc = "paramsOK"
    /\ main' = IF main.options.paramsOK
               THEN [main EXCEPT !.pc = StepAfter(main.rev, "paramsOK")]
               ELSE IF main.options.unknown # <<>>
               THEN Abort(main, "Unknown option", main.options.unknown)
               ELSE Abort(main, "Invalid value", ObjKeys(main.options.invalid))
    /\ SrtToAssIdle

\* process.exit()
MainExit ==
    /\ main.pc = "exit"
    /\ main' = [main EXCEPT !.exitCode = 0, !.pc = "exited"]
    /\ SrtToAssIdle

NextMain ==
    MainIntro \/ MainRequire \/ MainDebug \/ MainHelp \/ MainParamsOK \/ MainExit

SpecMain == InitMain /\ [][NextMain]_vars

\* ------------------------------------------------------------------------
\* Calls on files of one cue whose text carries replacement patterns,
\* placeholders, several lines or a date
\* ------------------------------------------------------------------------

TextAmp == <<"$", "&">>
TextDollars == <<"5", "$", "$", " ", "o", "f", "f">>
TextAfter == <<"a", "$", APOS, "b">>
TextPrice == <<"$", "5", " ", "f", "e", "e">>
TextBraces == <<"{", "t", "e", "x", "t", "}", " ", "{", "e", "n", "d", "}">>
TextTwoLines == <<"a", NL, "b">>
TextThreeLines == <<"a", NL, " ", "b", NL, "c">>

\* Sunday 1 March 2020, Friday 31 December 2021, Saturday 4 January 2020
TextSunday == <<"[", "2", "0", "2", "0", "-", "0", "3", "-", "0", "1", " ", "0", "9", ":", "0", "5", ":", "0", "7", "]">>
TextDecember == <<"[", "2", "0", "2", "1", "-", "1", "2", "-", "3", "1", " ", "2", "3", ":", "0", "0", ":", "0", "0", "]">>
TextSaturday == <<"[", "2", "0", "2", "0", "-", "0", "1", "-", "0", "4", " ", "0", "0", ":", "1", "0", ":", "0", "9", "]">>

PlainTexts == {TextPrice, TextBraces, TextTwoLines, TextThreeLines, TextCam}

PatternTexts == {TextAmp, TextDollars, TextAfter}

DateTexts == {TextSunday, TextDecember, TextSaturday, TextIso, TextDayFirst}

TextSources ==
    { CueBlock(t) : t \in PlainTexts \cup PatternTexts \cup DateTexts }
        \cup {BlockNoText, BlockNoIndex, BlockNoToken, BlockDigitsText}

InitTexts ==
    /\ srtFile = SrtName
    /\ source \in
         { [exists |-> TRUE, isFile |-> TRUE, content |-> c] : c \in TextSources }
           \cup { [exists |-> FALSE, isFile |-> FALSE, content |-> <<>>] }
    /\ destDir \in {EmptyDir, UsedDir}
    /\ destDir0 = destDir
    /\ isLocaleSupported \in BOOLEAN
    /\ tz \in {120}
    /\ pc = "call"
    /\ srtData = <<>>
    /\ index = 0
    /\ ass = <<>>
    /\ cue = NoCue
    /\ timeCodeLastIndex = 0
    /\ dateLastIndex = 0
    /\ result = "none"
    /\ todo = <<>>
    /\ prev = NoPrev
    /\ main = NoMain
    /\ run = IdleRun

SpecTexts == InitTexts /\ [][Next]_vars

\* ------------------------------------------------------------------------
\* The orchestrator (src/vconcat.js 332-420): subtitle conversions, then the
\* transcodes, then the list of outputs, the concatenation and the cleanup.
\* A file is <<directory, name>>; the file system maps each file to what
\* made it: "old" before the run, else "srtToAss", "ffmpeg", "playlist" or
\* "concat".
\* ------------------------------------------------------------------------

\* the characters U+2026 and U+2236, one character each
Hellip == "hellip"
RatioSign == "ratio"

\* String.prototype.endsWith
endsWith(s, suffix) ==
    Len(suffix) <= Len(s) /\ SubSeq(s, Len(s) - Len(suffix) + 1, Len(s)) = suffix

\* String.prototype.slice(a, b) for 0 <= a <= b
JsSlice(s, a, b) ==
    SubSeq(s, a + 1, IF b < Len(s) THEN b ELSE Len(s))

RECURSIVE ReplaceNonDigits(_, _)
\* .replace(/\D/g, repl)
ReplaceNonDigits(s, repl) ==
    IF s = <<>> THEN <<>>
    ELSE (IF IsDigit(Head(s)) THEN <<Head(s)>> ELSE repl) \o ReplaceNonDigits(Tail(s), repl)

\* formatPercent(resizeRatio).resizePercentDisplay for the default ratio .25
resizePercentDisplay == <<" ", "(", "2", "5", "%", ")">>

\* const extractDate = fileName => fileName.slice(0, 10).replace(/\D/g, '-')
extractDate(fileName) == ReplaceNonDigits(JsSlice(fileName, 0, 10), <<"-">>)

\* arr.splice(2, 0, x): x goes in at index 2, or at the end of a shorter array
Splice2(arr, x) ==
    IF Len(arr) <= 2 THEN arr \o <<x>>
    ELSE SubSeq(arr, 1, 2) \o <<x>> \o SubSeq(arr, 3, Len(arr))

extractTime(fileName) ==
    Splice2(ReplaceNonDigits(JsSlice(fileName, 11, 16), <<>>), RatioSign)

\* the default order of Array.prototype.sort: by code unit
CodeOrder == <<" ", "%", "(", ")", ".", "0", "1", "2", "3", "4", "5", "6", "7", "8", "9", "a", "b", "c", "d", "e", "f", "g", "h", "i", "j", "k", "l", "m", "n", "o", "p", "q", "r", "s", "t", "u", "v", "w", "x", "y", "z">>
CodeOf(c) == CHOOSE k \in 1..Len(CodeOrder) : CodeOrder[k] = c

RECURSIVE LessStr(_, _)
LessStr(a, b) ==
    IF b = <<>> THEN FALSE
    ELSE IF a = <<>> THEN TRUE
    ELSE IF Head(a) # Head(b) THEN CodeOf(Head(a)) < CodeOf(Head(b))
    ELSE LessStr(Tail(a), Tail(b))

\* the sequences that list every element of a set once: the orders in
\* which fs.readdirSync may hand over the names of a directory
Listings(S) ==
    { f \in [1..Cardinality(S) -> S] : \A i, j \in 1..Cardinality(S) : i # j => f[i] # f[j] }

\* the names of the files of a directory
NamesIn(fs, dir) == { p[2] : p \in { q \in DOMAIN fs : q[1] = dir } }

RECURSIVE SortedSeq(_)
\* the names of a set in the order of sort()
SortedSeq(S) ==
    IF S = {} THEN <<>>
    ELSE LET least == CHOOSE x \in S : \A y \in S \ {x} : LessStr(x, y)
         IN  <<least>> \o SortedSeq(S \ {least})

\* fs.readdirSync(dir).sort()
SortedNames(fs, dir) == SortedSeq(NamesIn(fs, dir))

PutFile(fs, p, by) == [q \in DOMAIN fs \cup {p} |-> IF q = p THEN by ELSE fs[q]]

\* fs.unlinkSync of each path inside try/catch: a missing file is passed over
UnlinkAll(fs, paths) == [q \in DOMAIN fs \ paths |-> fs[q]]

\* path.basename(fileName, path.extname(fileName)) of a name with one dot
BaseName(fileName) ==
    IF LastIndexOf(fileName, ".", Len(fileName)) > 1
    THEN SubSeq(fileName, 1, LastIndexOf(fileName, ".", Len(fileName)) - 1)
    ELSE fileName

\* a filter that takes every .mkv file of the ratio for an intermediate
IsIntermediateByEnding(file) ==
    endsWith(file, <<".", "m", "k", "v">>) /\ Includes(file, resizePercentDisplay)

\* the filter of mkvFiles
IsIntermediate(file) ==
    /\ endsWith(file, <<".", "m", "k", "v">>)
    /\ Includes(file, resizePercentDisplay)
    /\ ~Includes(file, <<Hellip>>)
    /\ ~Includes(file, <<"c", "o", "m", "b", "i", "n", "e", "d">>)

\* a subtitle argument that is given to every transcode
SubFileThereAlways(fs, subFile) == TRUE

\* fs.existsSync(subFile)
SubFileThere(fs, subFile) == subFile \in DOMAIN fs

\* srtFile.replace('.srt', '.ass')
AssNameOf(srtFileName) == ReplaceFirst(srtFileName, <<".", "s", "r", "t">>, <<".", "a", "s", "s">>)

\* the name of the transcoded output of a video
OutputNameOf(videoFile) == BaseName(videoFile) \o resizePercentDisplay \o <<".", "m", "k", "v">>

\* concatVideoFile
ConcatName(videoFiles) ==
    IF extractDate(videoFiles[1]) = extractDate(videoFiles[Len(videoFiles)])
    THEN extractDate(videoFiles[1]) \o <<" ">> \o extractTime(videoFiles[1])
           \o <<Hellip>> \o extractTime(videoFiles[Len(videoFiles)])
           \o resizePercentDisplay \o <<".", "m", "k", "v">>
    ELSE <<"c", "o", "m", "b", "i", "n", "e", "d">> \o resizePercentDisplay \o <<".", "m", "k", "v">>

PlaylistName == <<"c", "o", "n", "c", "a", "t", "-", "p", "l", "a", "y", "l", "i", "s", "t", ".", "t", "x", "t">>

\* one thing the run did
Event(op, file, sub, ok, list) ==
    [op |-> op, file |-> file, sub |-> sub, ok |-> ok, list |-> list]

VidA == <<"a", ".", "m", "p", "4">>
VidB == <<"b", ".", "m", "p", "4">>
VidCombined == <<"c", "o", "m", "b", "i", "n", "e", "d", "1", ".", "m", "p", "4">>
SubA == <<"a", ".", "s", "r", "t">>
SubB == <<"b", ".", "s", "r", "t">>
StaleMkv == <<"o", "l", "d", " ", "(", "2", "5", "%", ")", ".", "m", "k", "v">>
StaleOut == <<"c", "o", "m", "b", "i", "n", "e", "d", " ", "(", "2", "5", "%", ")", ".", "m", "k", "v">>
StaleAss == <<"a", ".", "a", "s", "s">>

SourceNames == {VidA, VidB, VidCombined, SubA, SubB}
StaleNames == {StaleMkv, StaleOut, StaleAss}

\* the phase after the subtitles, and the one after the listing of sourceDir
AfterSubtitles(videoFiles) == IF videoFiles # <<>> THEN "videos" ELSE "list"
AfterListing(subtitleFiles, videoFiles) ==
    IF subtitleFiles # <<>> THEN "subtitles" ELSE AfterSubtitles(videoFiles)

RunOn(dst, sources, stale) ==
    [pc |-> "start", sourceDir |-> "src", destinationDir |-> dst,
     fs0 |-> [p \in ({"src"} \X sources) \cup ({dst} \X stale) |-> "old"],
     fs |-> [p \in ({"src"} \X sources) \cup ({dst} \X stale) |-> "old"],
     videoFiles |-> <<>>, subtitleFiles |-> <<>>, mkvFiles |-> <<>>,
     i |-> 0, events |-> <<>>, deleted |-> {}]

InitRun ==
    /\ run \in { RunOn(d, s, o) : d \in {"src", "dst"}, s \in SUBSET SourceNames,
                                  o \in SUBSET StaleNames }
    /\ main = NoMain
    /\ srtFile = SrtName
    /\ source = [exists |-> FALSE, isFile |-> FALSE, content |-> <<>>]
    /\ destDir = EmptyDir
    /\ destDir0 = destDir
    /\ isLocaleSupported = TRUE
    /\ tz = 120
    /\ pc = "call"
    /\ srtData = <<>>
    /\ index = 0
    /\ ass = <<>>
    /\ cue = NoCue
    /\ timeCodeLastIndex = 0
    /\ dateLastIndex = 0
    /\ result = "none"
    /\ todo = <<>>
    /\ prev = NoPrev

RunOnly ==
    UNCHANGED <<main, srtFile, source, destDir, destDir0, isLocaleSupported, tz, pc,
                srtData, index, ass, cue, timeCodeLastIndex, dateLastIndex, result,
                todo, prev>>

\* allFiles = fs.readdirSync(sourceDir).sort(); videoFiles; subtitleFiles
ListSource ==
    /\ run.pc = "start"
    /\ LET allFiles == SortedNames(run.fs, run.sourceDir)
           videos == SelectSeq(allFiles, LAMBDA f : endsWith(f, <<".", "m", "p", "4">>))
           subs == SelectSeq(allFiles, LAMBDA f : endsWith(f, <<".", "s", "r", "t">>))
       IN  run' = [run EXCEPT !.videoFiles = videos, !.subtitleFiles = subs, !.i = 1,
                              !.pc = AfterListing(subs, videos)]
    /\ RunOnly

\* one pass of subtitleFiles.forEach: srtToAss(subFile) writes the .ass file
\* into destinationDir, or throws on a block without two time codes and
\* the exception ends the process
ConvertSubtitle ==
    /\ run.pc = "subtitles"
    /\ \E ok \in BOOLEAN :
         LET subFile == run.subtitleFiles[run.i]
         IN  run' = IF ok
                    THEN [run EXCEPT
                            !.fs = PutFile(@, <<run.destinationDir, AssNameOf(subFile)>>,
                                           "srtToAss"),
                            !.events = Append(@, Event("srtToAss", subFile, FALSE, TRUE, <<>>)),
                            !.i = IF run.i = Len(run.subtitleFiles) THEN 1 ELSE run.i + 1,
                            !.pc = IF run.i = Len(run.subtitleFiles)
                                   THEN AfterSubtitles(run.videoFiles) ELSE "subtitles"]
                    ELSE [run EXCEPT
                            !.events = Append(@, Event("srtToAss", subFile, FALSE, FALSE, <<>>)),
                            !.pc = "crashed"]
    /\ RunOnly

\* one pass of videoFiles.forEach: resizeAndEmbedSub(videoFile); ffmpeg
\* writes the output or fails, and the failure is caught
Transcode ==
    /\ run.pc = "videos"
    /\ \E ok \in BOOLEAN :
         LET videoFile == run.videoFiles[run.i]
             subFile == <<run.destinationDir, BaseName(videoFile) \o <<".", "a", "s", "s">>>>
             outputFile == <<run.destinationDir, OutputNameOf(videoFile)>>
         IN  run' = [run EXCEPT
                       !.fs = IF ok THEN PutFile(@, outputFile, "ffmpeg") ELSE @,
                       !.events = Append(@, Event("transcode", videoFile,
                                                  SubFileThere(run.fs, subFile), ok, <<>>)),
                       !.i = IF run.i = Len(run.videoFiles) THEN 1 ELSE run.i + 1,
                       !.pc = IF run.i = Len(run.videoFiles) THEN "list" ELSE "videos"]
    /\ RunOnly

\* mkvFiles = fs.readdirSync(destinationDir).filter(..), the names that pass
\* the filter in the order the directory hands them over; with none of them
\* abort('No files to concatenate!')
ListOutputs ==
    /\ run.pc = "list"
    /\ \E mkvFiles \in Listings({ f \in NamesIn(run.fs, run.destinationDir) :
                                      IsIntermediate(f) }) :
         run' = [run EXCEPT !.mkvFiles = mkvFiles,
                            !.pc = IF mkvFiles # <<>> THEN "concat" ELSE "aborted"]
    /\ RunOnly

\* the playlist is written, the output is named after the first and the
\* last video (extractDate(undefined) throws when there is no video), and
\* ffmpeg concatenates or fails, the failure caught
Concat ==
    /\ run.pc = "concat"
    /\ \E ok \in BOOLEAN :
         LET listed == PutFile(run.fs, <<run.destinationDir, PlaylistName>>, "playlist")
         IN  run' = IF run.videoFiles = <<>>
                    THEN [run EXCEPT !.fs = listed, !.pc = "crashed"]
                    ELSE [run EXCEPT
                            !.fs = IF ok
                                   THEN PutFile(listed, <<run.destinationDir,
                                                          ConcatName(run.videoFiles)>>, "concat")
                                   ELSE listed,
                            !.events = Append(@, Event("concat", ConcatName(run.videoFiles),
                                                       FALSE, ok, run.mkvFiles)),
                            !.pc = "cleanup"]
    /\ RunOnly

\* the files cleanup() unlinks: mkvFiles, the .ass name of every subtitle
\* file, concat-playlist.txt, all of them in destinationDir
CleanupPaths(r) ==
    { <<r.destinationDir, r.mkvFiles[k]>> : k \in 1..Len(r.mkvFiles) }
      \cup { <<r.destinationDir, AssNameOf(r.subtitleFiles[k])>> :
                k \in 1..Len(r.subtitleFiles) }
      \cup { <<r.destinationDir, PlaylistName>> }

\* cleanup()
Cleanup ==
    /\ run.pc = "cleanup"
    /\ run' = [run EXCEPT !.fs = UnlinkAll(@, CleanupPaths(run)),
                          !.deleted = CleanupPaths(run) \cap DOMAIN run.fs,
                          !.events = Append(@, Event("cleanup", <<>>, FALSE, TRUE, <<>>)),
                          !.pc = "done"]
    /\ RunOnly

NextRun == ListSource \/ ConvertSubtitle \/ Transcode \/ ListOutputs \/ Concat \/ Cleanup

SpecRun == InitRun /\ [][NextRun]_vars
\* ------------------------------------------------------------------------
\* What the claims speak of
\* ------------------------------------------------------------------------

\* the call is over
Terminal == pc \in {"done", "returned", "thrown"}

Readable == source.exists /\ source.isFile

StartsWith(s, prefix) == OccursAt(s, prefix, 1)

EndsWith(s, suffix) == Len(suffix) <= Len(s) /\ OccursAt(s, suffix, Len(s) - Len(suffix) + 1)

DialoguePrefix == <<"D", "i", "a", "l", "o", "g", "u", "e", ":", " ">>

\* the lines of a document, the text after its last line feed aside
LinesOf(doc) == SubSeq(SplitStr(doc, <<NL>>), 1, Len(SplitStr(doc, <<NL>>)) - 1)

\* how many lines of a document are Dialogue lines
DialogueCount(doc) == Len(SelectSeq(LinesOf(doc), LAMBDA l : StartsWith(l, DialoguePrefix)))

\* the pass of the loop that has just appended its line
LineEmitted == pc \in {"forEach", "done"} /\ index > 1 /\ ~cue.threw

\* the pieces between the blank-line separators of a file
PiecesOf(content) == SplitStr(content, <<NL, NL>>)

\* how many time codes a line holds: its maximal runs of digits, colons and
\* commas
RECURSIVE TimeCodeCount(_)
TimeCodeCount(l) ==
    LET i == FindTimeCode(l, 1)
    IN  IF i = 0 THEN 0 ELSE 1 + TimeCodeCount(From(l, SkipTimeCode(l, i)))

AllDigits(l) == Len(l) > 0 /\ \A k \in 1..Len(l) : IsDigit(l[k])

\* The cue of a block as the parser is specified: the block is split into
\* lines, a first line of digits only is the index and is dropped, the
\* first line left is the times line, the lines after it are the text.
SpecLines(block) ==
    LET ls == SplitStr(Trim(block), <<NL>>)
    IN  IF AllDigits(ls[1]) THEN Tail(ls) ELSE ls

SpecTimesLine(block) == IF SpecLines(block) = <<>> THEN <<>> ELSE SpecLines(block)[1]

SpecText(block) ==
    IF SpecLines(block) = <<>> THEN <<>> ELSE JoinStr(Tail(SpecLines(block)), <<BS, "N">>)

\* the blocks the parser is specified to retain: those not empty after trimming
SpecRetained(content) == SelectSeq(PiecesOf(content), LAMBDA b : Trim(b) # <<>>)

\* C1 (as claimed): for a block whose times line is
\* "00:00:01,000 --> 00:00:04,000" the dialogue line carries the start token
\* "00:00:01.000" and the end token "00:00:04.000".
C1_AsClaimed ==
    (LineEmitted /\ cue.timesLine = TimesOK)
        => /\ SplitStr(cue.dialogue, <<",">>)[2] = <<"0", "0", ":", "0", "0", ":", "0", "1", ".", "0", "0", "0">>
           /\ SplitStr(cue.dialogue, <<",">>)[3] = <<"0", "0", ":", "0", "0", ":", "0", "4", ".", "0", "0", "0">>

\* C1 (amended): for a block whose times line is
\* "00:00:01,000 --> 00:00:04,000" the dialogue line appended to the document
\* carries the start token "0:00:01.00" and the end token "0:00:04.00": each
\* time code loses its first and its last character.
C1_Tokens ==
    (LineEmitted /\ cue.timesLine = TimesOK)
        => /\ EndsWith(ass, cue.dialogue)
           /\ SplitStr(cue.dialogue, <<",">>)[2] = <<"0", ":", "0", "0", ":", "0", "1", ".", "0", "0">>
           /\ SplitStr(cue.dialogue, <<",">>)[3] = <<"0", ":", "0", "0", ":", "0", "4", ".", "0", "0">>

C1_Witness == LineEmitted /\ cue.timesLine = TimesOK /\ pc = "done"

\* C2 (as claimed): when every retained block of the source is well-formed
\* (its times line holds two time codes), the written file holds as many
\* Dialogue lines as the source has blocks that are not empty.
C2_AsClaimed ==
    ( /\ Terminal /\ Readable
      /\ \A k \in 1..Len(SpecRetained(source.content)) :
            TimeCodeCount(SpecTimesLine(SpecRetained(source.content)[k])) >= 2 )
        => /\ pc = "done"
           /\ AssFileName(srtFile) \in DOMAIN destDir
           /\ DialogueCount(destDir[AssFileName(srtFile)])
                = Len(SpecRetained(source.content))

\* C3 (as claimed): when the times line of a retained block holds fewer than
\* two time codes the call ends with an error and writes no file.
C3_AsClaimed ==
    ( /\ Terminal /\ Readable
      /\ \E k \in 1..Len(SpecRetained(source.content)) :
            TimeCodeCount(SpecTimesLine(SpecRetained(source.content)[k])) < 2 )
        => /\ pc = "thrown"
           /\ destDir = destDir0

FirstSpan(text) == dateRegexExec(text, 0)

\* the text after a span
AfterSpan(text, m) == From(text, m.end + 1)

\* the formatted date the first span of a text is replaced by, '' if none
FirstSpanDate(text) ==
    IF FirstSpan(text).found /\ Len(DateGroup(text, FirstSpan(text))) > 0
    THEN NewDateText(DateGroup(text, FirstSpan(text)), isLocaleSupported, tz)
    ELSE <<>>

\* C5 (as claimed): when the text of a cue holds more than one bracketed
\* span and the first one parses as a date, the first span alone is replaced
\* by the formatted date and the text after it stays as written.
C5_AsClaimed ==
    ( /\ LineEmitted
      /\ Len(FirstSpanDate(cue.textLines)) > 0
      /\ FirstSpan(AfterSpan(cue.textLines, FirstSpan(cue.textLines))).found )
        => cue.dated = SubSeq(cue.textLines, 1, FirstSpan(cue.textLines).start - 1)
                        \o FirstSpanDate(cue.textLines)
                        \o AfterSpan(cue.textLines, FirstSpan(cue.textLines))

UpperSeq(s) == [k \in 1..Len(s) |-> UpperOf(s[k])]

\* 0K?MP?\/?H spelled out
ZeroSpeedWords ==
    {<<"0", "M", "H">>, <<"0", "K", "M", "H">>, <<"0", "M", "P", "H">>, <<"0", "K", "M", "P", "H">>,
     <<"0", "M", "/", "H">>, <<"0", "K", "M", "/", "H">>, <<"0", "M", "P", "/", "H">>, <<"0", "K", "M", "P", "/", "H">>}

\* 0?K?MP?\/?H spelled out
SpeedWords ==
    ZeroSpeedWords \cup { Tail(w) : w \in ZeroSpeedWords }

\* w is whitespace, one character or more of it, and then a word of words
IsSpeedToken(w, words) ==
    /\ SkipSpaces(w, 1) > 1
    /\ UpperSeq(From(w, SkipSpaces(w, 1))) \in words

\* the positions of a text that lie in a substring that is such a token
TokenPositions(t, words) ==
    UNION { p[1]..p[2] :
              p \in { q \in { i \in 1..Len(t) : IsSpace(t[i]) }
                              \X { j \in 1..Len(t) : UpperOf(t[j]) = "H" } :
                        q[1] < q[2] /\ IsSpeedToken(SubSeq(t, q[1], q[2]), words) } }

RECURSIVE Without(_, _, _)
\* the text t from position i on without the characters at the positions of gone
Without(t, gone, i) ==
    IF i > Len(t) THEN <<>>
    ELSE (IF i \in gone THEN <<>> ELSE <<t[i]>>) \o Without(t, gone, i + 1)

\* the text the dialogue line carries after its ninth comma
EmittedText(dialogue) ==
    SubSeq(dialogue, Len(DialogueLine(cue.newStartTime, cue.newEndTime, <<>>)),
           Len(dialogue) - 1)

\* C6 (as claimed): the text emitted is the text without every substring
\* made of whitespace, an optional 0, an optional K, M, an optional P, an
\* optional /, and H, in either case: " MPH" goes as " 0MPH" does.
C6_AsClaimed ==
    LineEmitted
        => cue.text = Without(cue.dated, TokenPositions(cue.dated, SpeedWords), 1)

\* C6 (amended): the text emitted is the text without every substring made
\* of one or more whitespace characters, a 0, an optional K, M, an optional
\* P, an optional /, and H, in either case; a unit that no 0 precedes, as
\* " MPH", stays in the text.
C6_ZeroNeeded ==
    LineEmitted
        => /\ cue.text = Without(cue.dated, TokenPositions(cue.dated, ZeroSpeedWords), 1)
           /\ EmittedText(cue.dialogue) = cue.text
           /\ (cue.textLines = <<"S", "p", "e", "e", "d", " ", "M", "P", "H">> => cue.text = <<"S", "p", "e", "e", "d", " ", "M", "P", "H">>)

C6_Witness ==
    /\ LineEmitted
    /\ cue.textLines = <<"S", "p", "e", "e", "d", " ", "M", "P", "H">>
    /\ EndsWith(ass, <<"S", "p", "e", "e", "d", " ", "M", "P", "H">> \o <<NL>>)

\* C7: the cue texts "Speed 0KM/H" and "Speed 0MPH" are both emitted as
\* "Speed": the text of the dialogue line, all that follows its nine leading
\* fields, is "Speed".
C7_Speed ==
    (LineEmitted /\ cue.textLines \in {<<"S", "p", "e", "e", "d", " ", "0", "K", "M", "/", "H">>, <<"S", "p", "e", "e", "d", " ", "0", "M", "P", "H">>})
        => /\ cue.text = <<"S", "p", "e", "e", "d">>
           /\ EmittedText(cue.dialogue) = <<"S", "p", "e", "e", "d">>
           /\ EndsWith(ass, <<",", ",">> \o <<"S", "p", "e", "e", "d">> \o <<NL>>)

\* both texts in one file, both lines in the document written
C7_Witness ==
    /\ pc = "done"
    /\ source.content = BlockKmh \o <<NL, NL>> \o BlockMph
    /\ DialogueCount(destDir[AssFileName(srtFile)]) = 2
    /\ \A k \in 1..2 :
          EndsWith(SelectSeq(LinesOf(destDir[AssFileName(srtFile)]),
                             LAMBDA l : StartsWith(l, DialoguePrefix))[k],
                   <<",", ",">> \o <<"S", "p", "e", "e", "d">>)

\* the blocks that pass the filter of the parser, as the file has them
RawBlocks(content) == SelectSeq(PiecesOf(content), LAMBDA b : Len(b) > 0)

\* C8 (as claimed): a block that is empty after trimming is discarded: the
\* loop never gets one, so none raises an error and none gives a line.
C8_AsClaimed ==
    (pc \in {"forEach", "thrown"} /\ index <= Len(srtData))
        => Trim(RawBlocks(source.content)[index]) # <<>>

\* C9 (as claimed): for a source with no retained block, the empty file
\* among them, the call completes and writes a file that holds the header
\* and no Dialogue line.
C9_AsClaimed ==
    (Terminal /\ Readable /\ SpecRetained(source.content) = <<>>)
        => /\ pc = "done"
           /\ AssFileName(srtFile) \in DOMAIN destDir
           /\ destDir[AssFileName(srtFile)] = assPreamble \o <<NL>>

\* C10 (as claimed): the first line of a block is dropped when it is made of
\* digits only and no other line is: the times line is the first line left
\* and the text is every line after it, a later line of digits included.
C10_AsClaimed ==
    LineEmitted
        => /\ cue.timesLine = SpecTimesLine(RawBlocks(source.content)[index - 1])
           /\ cue.textLines = SpecText(RawBlocks(source.content)[index - 1])

\* the text between the brackets of the first span of a text, '' if none
FirstSpanContent(text) ==
    IF FirstSpan(text).found THEN DateGroup(text, FirstSpan(text)) ELSE <<>>

\* C11 (as claimed): when the text of a cue is "[07.01.2020 08:56:45]" and
\* the span is replaced, the text emitted names the 7th day of January 2020.
C11_AsClaimed ==
    (LineEmitted /\ cue.textLines = TextDayFirst /\ cue.dated # cue.textLines)
        => /\ Includes(cue.dated, <<",", " ", "7", " ", "i", "a", "n", "u", "a", "r", "i", "e", " ", "2", "0", "2", "0", ",", " ">>)
           /\ ~Includes(cue.dated, <<"[">>)

\* neither parse attempt reads a date from the content c of a span
FailsBothParses(c) ==
    ~DateParseTruthy(c, tz) /\ ~DateParseTruthy(RetryString(c), tz)

\* C12: when the text of a cue has no bracketed span, or the content of its
\* first span fails both parse attempts, the date step leaves the text as it
\* is and raises nothing: the only error a pass raises is that of a times
\* line with fewer than two time codes.
C12_Unchanged ==
    /\ ( /\ LineEmitted
         /\ \/ ~FirstSpan(cue.textLines).found
            \/ FailsBothParses(FirstSpanContent(cue.textLines)) )
          => cue.dated = cue.textLines
    /\ pc = "thrown" => TimeCodeCount(cue.timesLine) < 2

C12_Witness ==
    /\ pc = "done"
    /\ cue.textLines = TextCam
    /\ cue.dated = TextCam
    /\ FirstSpan(cue.textLines).found
    /\ FailsBothParses(FirstSpanContent(cue.textLines))

\* the n-th maximal run of digits, colons and commas of a line
RECURSIVE NthTimeCode(_, _)
NthTimeCode(l, n) ==
    LET i == FindTimeCode(l, 1)
        j == SkipTimeCode(l, i)
    IN  IF n = 1 THEN SubSeq(l, i, j - 1) ELSE NthTimeCode(From(l, j), n - 1)

\* a token with its first comma turned into a period
FirstCommaToPeriod(t) ==
    [k \in 1..Len(t) |->
        IF t[k] = "," /\ (\A h \in 1..(k - 1) : t[h] # ",") THEN "." ELSE t[k]]

\* a token without its first and its last character
WithoutEnds(t) == [k \in 1..Max(Len(t) - 2, 0) |-> t[k + 1]]

\* C18 (as claimed): each time code emitted is the matched token with its
\* comma turned into a period and its first and last character removed, and
\* is two characters shorter than the token.
C18_AsClaimed ==
    LineEmitted
        => /\ cue.newStartTime = WithoutEnds(FirstCommaToPeriod(NthTimeCode(cue.timesLine, 1)))
           /\ cue.newEndTime = WithoutEnds(FirstCommaToPeriod(NthTimeCode(cue.timesLine, 2)))
           /\ Len(cue.newStartTime) = Len(NthTimeCode(cue.timesLine, 1)) - 2
           /\ Len(cue.newEndTime) = Len(NthTimeCode(cue.timesLine, 2)) - 2

\* C18 (amended): each time code emitted is the matched token with its first
\* comma turned into a period and then its first and last character removed,
\* character by character: it is two characters shorter than a token of two
\* characters or more and empty for a token of one character.
C18_Sliced ==
    LineEmitted
        => /\ \A n \in 1..2 :
                LET token == NthTimeCode(cue.timesLine, n)
                    emitted == IF n = 1 THEN cue.newStartTime ELSE cue.newEndTime
                IN  /\ emitted = WithoutEnds(FirstCommaToPeriod(token))
                    /\ Len(emitted) = (IF Len(token) >= 2 THEN Len(token) - 2 ELSE 0)
           /\ StartsWith(cue.dialogue,
                         DialoguePrefix \o <<"0", ",">> \o cue.newStartTime \o <<",">>
                           \o cue.newEndTime \o <<",">>)

C18_Witness ==
    /\ pc = "done"
    /\ cue.timesLine = TimesShort
    /\ cue.newStartTime = <<>>
    /\ cue.newEndTime = <<>>

\* is c of the shape DD.MM.YYYY
IsDayMonthYear(c) ==
    /\ Len(c) = 10
    /\ \A k \in 1..10 : IF k \in {3, 6} THEN c[k] = "." ELSE IsDigit(c[k])

\* is c of the shape DD.MM.YYYY HH:MM:SS
IsDayMonthYearTime(c) ==
    /\ Len(c) = 19
    /\ IsDayMonthYear(SubSeq(c, 1, 10))
    /\ c[11] = " "
    /\ \A k \in 12..19 : IF k \in {14, 17} THEN c[k] = ":" ELSE IsDigit(c[k])

\* YYYY-MM-DD of a content that starts with DD.MM.YYYY
ReversedDate(c) ==
    SubSeq(c, 7, 10) \o <<"-">> \o SubSeq(c, 4, 5) \o <<"-">> \o SubSeq(c, 1, 2)

\* a text with its first span replaced by the formatted date read from s
WithDateOf(text, s) ==
    SubSeq(text, 1, FirstSpan(text).start - 1)
      \o FormatDate(NewDate(s, tz), isLocaleSupported)
      \o AfterSpan(text, FirstSpan(text))

\* C20 (as claimed): a content DD.MM.YYYY HH:MM:SS whose first parse fails
\* is retried as "YYYY-MM-DD HH:MM:SS" and gives the date of that day and
\* time; a content DD.MM.YYYY whose first parse fails is retried as
\* "YYYY-MM-DD" and gives the date of that day.
C20_AsClaimed ==
    LineEmitted
        => LET c == FirstSpanContent(cue.textLines)
           IN  /\ (IsDayMonthYearTime(c) /\ ~DateParseTruthy(c, tz))
                    => /\ RetryString(c) = ReversedDate(c) \o SubSeq(c, 11, 19)
                       /\ cue.dated = WithDateOf(cue.textLines, RetryString(c))
               /\ (IsDayMonthYear(c) /\ ~DateParseTruthy(c, tz))
                    => /\ RetryString(c) = ReversedDate(c)
                       /\ cue.dated = WithDateOf(cue.textLines, ReversedDate(c))

\* a second call is under way or over
SecondCall == prev.pc # "none"

\* C13: when srtToAss is called a second time on the same path, the file
\* there unchanged, the second call ends as the first one did and leaves the
\* directory byte for byte as the first one left it: nothing of the first
\* call reaches the second.
C13_SameTwice ==
    (Terminal /\ SecondCall /\ prev.srtFile = srtFile /\ prev.source = source)
        => /\ pc = prev.pc
           /\ result = prev.result
           /\ destDir = prev.destDir

C13_Witness ==
    /\ pc = "done" /\ prev.pc = "done"
    /\ prev.srtFile = srtFile
    /\ source.content = TwoCues
    /\ DialogueCount(destDir[AssFileName(srtFile)]) = 2
    /\ destDir[AssFileName(srtFile)] = prev.destDir[AssFileName(srtFile)]

\* C17 (as claimed): for two distinct subtitle files of the directory the
\* two destination paths differ and neither is the path of one of the two
\* sources, so the second transform reads the file that was there before
\* the first one ran and leaves the output of the first one alone.
C17_AsClaimed ==
    (SecondCall /\ prev.srtFile # srtFile /\ prev.source.exists)
        => /\ AssFileName(srtFile) # AssFileName(prev.srtFile)
           /\ AssFileName(srtFile) \notin {srtFile, prev.srtFile}
           /\ AssFileName(prev.srtFile) \notin {srtFile, prev.srtFile}
           /\ source = FileAt(prev.destDir0, srtFile)
           /\ (pc = "done" /\ prev.pc = "done")
                => destDir[AssFileName(prev.srtFile)]
                     = prev.destDir[AssFileName(prev.srtFile)]

\* the dialogue line of a block of the source
LineOfBlock(block) == ProcessCue(CleanBlock(block), isLocaleSupported, tz).dialogue

\* C14: the document written is the header followed by the dialogue lines of
\* the blocks in the order the blocks have in the source: the line of block
\* i stands before the line of block j whenever i < j.
C14_SourceOrder ==
    pc = "done"
        => /\ Len(LinesOf(destDir[AssFileName(srtFile)]))
                = 1 + Len(RawBlocks(source.content))
           /\ LinesOf(destDir[AssFileName(srtFile)])[1] = assPreamble
           /\ \A k \in 1..Len(RawBlocks(source.content)) :
                LinesOf(destDir[AssFileName(srtFile)])[k + 1] \o <<NL>>
                    = LineOfBlock(RawBlocks(source.content)[k])

C14_Witness ==
    /\ pc = "done"
    /\ source.content = BlockKmh \o <<NL, NL>> \o BlockHi
    /\ EndsWith(LinesOf(destDir[AssFileName(srtFile)])[2], <<"S", "p", "e", "e", "d">>)
    /\ EndsWith(LinesOf(destDir[AssFileName(srtFile)])[3], <<"H", "i">>)

\* the directory with the file name holding doc and every other file as in dir
WithFile(dir, name, doc) ==
    [n \in DOMAIN dir \cup {name} |-> IF n = name THEN doc ELSE dir[n]]

\* a complete document for a source: the header and one Dialogue line a block
CompleteFor(doc, content) ==
    /\ StartsWith(doc, assPreamble \o <<NL>>)
    /\ Len(doc) > 0 /\ doc[Len(doc)] = NL
    /\ Len(LinesOf(doc)) = 1 + Len(RawBlocks(content))
    /\ DialogueCount(doc) = Len(RawBlocks(content))

\* C15: while a call runs the destination directory is as it was; when the
\* call is over, either the destination path holds one complete document of
\* this source, in place of whatever it held, and every other file is as it
\* was, or the call wrote nothing: a call that raises an error or returns
\* early leaves the path as it was.
C15_AllOrNothing ==
    /\ ~Terminal => destDir = destDir0
    /\ pc \in {"thrown", "returned"} => destDir = destDir0
    /\ pc = "done"
         => /\ AssFileName(srtFile) \in DOMAIN destDir
            /\ CompleteFor(destDir[AssFileName(srtFile)], source.content)
            /\ destDir = WithFile(destDir0, AssFileName(srtFile),
                                  destDir[AssFileName(srtFile)])

\* a file was there and is replaced
C15_Witness ==
    /\ pc = "done"
    /\ destDir0 = UsedDir
    /\ source.content = BlockHi
    /\ destDir[AssFileName(srtFile)] # destDir0[AssFileName(srtFile)]
    /\ ~Includes(destDir[AssFileName(srtFile)], <<"o", "l", "d">>)
    /\ destDir[OtherName] = destDir0[OtherName]

\* what the date step makes of a text when it examines the first span of it
DatedFromFirstSpan(text) ==
    IF Len(FirstSpanDate(text)) > 0
    THEN dateRegexReplace(text, 1, FirstSpanDate(text))
    ELSE text

\* C19: in every pass of the loop, whatever the passes and the calls before
\* it left behind, the start token comes from the first time code of the
\* times line of this cue and the end token from the second one, and the
\* date step examines the first bracketed span of the text of this cue; a
\* times line with two time codes never fails to give both.
C19_OwnCue ==
    /\ LineEmitted
         => /\ cue.timesLine = TimesLineOf(srtData[index - 1])
            /\ cue.textLines = TextLinesOf(srtData[index - 1])
            /\ cue.newStartTime
                 = WithoutEnds(FirstCommaToPeriod(NthTimeCode(cue.timesLine, 1)))
            /\ cue.newEndTime
                 = WithoutEnds(FirstCommaToPeriod(NthTimeCode(cue.timesLine, 2)))
            /\ cue.dated = DatedFromFirstSpan(cue.textLines)
    /\ pc = "thrown" => TimeCodeCount(cue.timesLine) < 2

\* the second cue of the second call, after a cue whose span held no date
C19_Witness ==
    /\ SecondCall
    /\ LineEmitted /\ index = 3
    /\ source.content = TwoCues
    /\ cue.textLines = TextIso
    /\ cue.dated # cue.textLines
    /\ ~Includes(cue.dated, <<"[">>)


\* the arguments that ask for help
HelpArgs == { <<"-", "h">>, <<"-", "-", "h", "e", "l", "p">> }
HelpAmong(argv) == \E i \in 1..Len(argv) : argv[i] \in HelpArgs

\* every argument is an option the parser of the revision accepts
AllValid(rev, argv) ==
    \A i \in 1..Len(argv) :
        /\ ~getParamValuePair(rev, argv[i]).throws
        /\ getParamValuePair(rev, argv[i]).valid

\* the help message is the last thing the process wrote
HelpShown(m) == m.out # <<>> /\ m.out[Len(m.out)] = Printed("stderr", "usage", <<>>)

\* C16: when -h or --help is among the arguments and every other argument is
\* a valid option, the process ends having printed the help message as its
\* last output and no subtitle conversion has run or written a file
C16_AsClaimed ==
    (main.pc = "exited" /\ HelpAmong(main.argv) /\ AllValid(main.rev, main.argv))
        => (HelpShown(main) /\ pc = "call" /\ destDir = destDir0)

\* the line the format asks for, without its line end
ExactLine(start, end, text) ==
    <<"D", "i", "a", "l", "o", "g", "u", "e", ":", " ", "0", ",">> \o start \o <<",">> \o end
        \o <<",", "D", "e", "f", "a", "u", "l", "t", ",", ",", "0", ",", "0", ",", "0", ",", ",">> \o text

\* C21 (as claimed): every emitted line is exactly
\* "Dialogue: 0,<start>,<end>,Default,,0,0,0,,<text>" with the processed text
\* of the cue inserted character for character, whatever the text holds
C21_AsClaimed ==
    LineEmitted
        => cue.dialogue = ExactLine(cue.newStartTime, cue.newEndTime, cue.text) \o <<NL>>

\* the lines of a block after its times line, as the source file has them
SourceTextLines(block) == Tail(SpecLines(block))

\* C22 (as claimed): the text field of a cue is the text lines of its block,
\* all of them and in their order, joined with the marker \N; a block with no
\* line after the times line has an empty text field and its dialogue line
\* is emitted with nothing after the ninth comma.
C22_AsClaimed ==
    LineEmitted
        => /\ cue.textLines
                = JoinStr(SourceTextLines(RawBlocks(source.content)[index - 1]), <<BS, "N">>)
           /\ SourceTextLines(RawBlocks(source.content)[index - 1]) = <<>>
                => /\ cue.text = <<>>
                   /\ cue.dialogue
                        = ExactLine(cue.newStartTime, cue.newEndTime, <<>>) \o <<NL>>

\* the day of the week of a civil date, 0 for Sunday, by the congruence of
\* Sakamoto
MonthOffsets == <<0, 3, 2, 5, 0, 3, 5, 1, 4, 6, 2, 4>>
WeekdayOf(y, m, d) ==
    LET yy == IF m < 3 THEN y - 1 ELSE y
    IN  (yy + yy \div 4 - yy \div 100 + yy \div 400 + MonthOffsets[m] + d) % 7

\* a number written without padding, at most max
Unpadded(str, max) ==
    str # <<>> /\ AllDigits(str) /\ str = NumStr(NumVal(str)) /\ NumVal(str) <= max

\* a number written in two digits, below 60
TwoDigits(str) == Len(str) = 2 /\ AllDigits(str) /\ NumVal(str) < 60

\* the three parts of a rendered date: weekday; day, month, year; time
RenderedParts(str) ==
    [parts |-> SplitStr(str, <<",", " ">>),
     date |-> SplitStr(SplitStr(str, <<",", " ">>)[2], <<" ">>),
     time |-> SplitStr(SplitStr(str, <<",", " ">>)[3], <<":">>)]

\* "<weekday>, <day> <month> <year>, <hour>:<minute>:<second>": the month is
\* a name of the 12-name table, the weekday is the name the 7-name table
\* starting at Sunday has for the weekday of that date, day and hour are
\* not padded, minute and second have two digits
WellRendered(r) ==
    /\ Len(r.date) = 3 /\ Len(r.time) = 3
    /\ Unpadded(r.date[1], 31) /\ NumVal(r.date[1]) >= 1
    /\ \E m \in 1..12 :
          /\ r.date[2] = months[m]
          /\ Unpadded(r.date[3], 9999)
          /\ r.parts[1] = days[WeekdayOf(NumVal(r.date[3]), m, NumVal(r.date[1])) + 1]
    /\ Unpadded(r.time[1], 23)
    /\ TwoDigits(r.time[2]) /\ TwoDigits(r.time[3])

\* the span "[YYYY-MM-DD hh:mm:ss]" names the date and the time of r
SameAsIso(span, r) ==
    /\ NumVal(SubSeq(span, 2, 5)) = NumVal(r.date[3])
    /\ months[NumVal(SubSeq(span, 7, 8))] = r.date[2]
    /\ NumVal(SubSeq(span, 10, 11)) = NumVal(r.date[1])
    /\ NumVal(SubSeq(span, 13, 14)) = NumVal(r.time[1])
    /\ SubSeq(span, 16, 17) = r.time[2]
    /\ SubSeq(span, 19, 20) = r.time[3]

IsoTexts == {TextSunday, TextDecember, TextSaturday, TextIso}

\* the cue whose text is one span that parsed, rendered without the locale
FallbackRendered ==
    /\ LineEmitted /\ ~isLocaleSupported
    /\ cue.textLines \in DateTexts /\ cue.dated # cue.textLines

\* C23: without the ro-RO locale a parsed date is rendered as
\* "<weekday>, <day> <month> <year>, <hour>:<minute>:<second>", weekday and
\* month taken from the tables at getDay() and getMonth(), minutes and
\* seconds in two digits, day and hour unpadded; for a span in ISO form the
\* fields are those the span names.
C23_Fallback ==
    FallbackRendered
        => /\ Len(SplitStr(cue.dated, <<",", " ">>)) = 3
           /\ WellRendered(RenderedParts(cue.dated))
           /\ cue.textLines \in IsoTexts
                => SameAsIso(cue.textLines, RenderedParts(cue.dated))

\* C23 witness: a Sunday with a one-digit hour, minute and second is rendered
C23_Witness ==
    /\ FallbackRendered
    /\ cue.textLines = TextSunday
    /\ cue.dated = <<"d", "u", "m", "i", "n", "i", "c">> \o <<"a_breve">> \o <<",", " ", "1", " ", "m", "a", "r", "t", "i", "e", " ", "2", "0", "2", "0", ",", " ", "9", ":", "0", "5", ":", "0", "7">>

\* the order of the phases of a run
PhaseRank(op) ==
    CASE op = "srtToAss" -> 1 [] op = "transcode" -> 2 [] op = "concat" -> 3
      [] op = "cleanup" -> 4

\* how many things of one kind the run has done
CountOf(events, op) == Cardinality({ k \in 1..Len(events) : events[k].op = op })

\* was the .ass file of a video in the destination directory when event k
\* began: it was there before the run, or a conversion before k wrote it
AssThereAt(r, k) ==
    LET assName == BaseName(r.events[k].file) \o <<".", "a", "s", "s">>
    IN  \/ <<r.destinationDir, assName>> \in DOMAIN r.fs0
        \/ \E j \in 1..(k - 1) :
              /\ r.events[j].op = "srtToAss" /\ r.events[j].ok
              /\ AssNameOf(r.events[j].file) = assName

\* C24: in a run the phases are strictly ordered: every subtitle conversion
\* has finished before the first transcode, every transcode has returned
\* before concat, concat is invoked at most once, cleanup starts only after
\* concat has returned; a transcode gets a subtitle input exactly when the
\* .ass file of its base name is in the destination directory at that moment.
C24_Phases ==
    /\ \A j, k \in 1..Len(run.events) :
          j < k => PhaseRank(run.events[j].op) <= PhaseRank(run.events[k].op)
    /\ CountOf(run.events, "transcode") > 0
          => CountOf(run.events, "srtToAss") = Len(run.subtitleFiles)
    /\ CountOf(run.events, "concat") > 0
          => CountOf(run.events, "transcode") = Len(run.videoFiles)
    /\ CountOf(run.events, "concat") <= 1
    /\ CountOf(run.events, "cleanup") <= CountOf(run.events, "concat")
    /\ \A k \in 1..Len(run.events) :
          run.events[k].op = "transcode" => (run.events[k].sub <=> AssThereAt(run, k))

\* C24 witness: a finished run with two subtitle conversions and three
\* transcodes, one of them without a subtitle input
C24_Witness ==
    /\ run.pc = "done"
    /\ CountOf(run.events, "srtToAss") = 2
    /\ CountOf(run.events, "transcode") = 3
    /\ \E k \in 1..Len(run.events) : run.events[k].op = "transcode" /\ run.events[k].sub
    /\ \E k \in 1..Len(run.events) : run.events[k].op = "transcode" /\ ~run.events[k].sub

\* the outputs of the videos of the run, in the order of the video names
OutputsInOrder(r) == [k \in 1..Len(r.videoFiles) |-> OutputNameOf(r.videoFiles[k])]

\* C25 (as claimed): when concat is invoked the output of every video exists
\* and the list handed over is exactly those outputs, one per video, in the
\* sorted order of the video names.
C25_AsClaimed ==
    \A k \in 1..Len(run.events) :
        run.events[k].op = "concat"
            => /\ run.events[k].list = OutputsInOrder(run)
               /\ \A j \in 1..Len(run.videoFiles) :
                     \E t \in 1..(k - 1) :
                         /\ run.events[t].op = "transcode" /\ run.events[t].ok
                         /\ run.events[t].file = run.videoFiles[j]

\* C26 (as claimed): cleanup deletes only files the run made: every file that
\* was in the destination directory before the run, and every source file,
\* is still there after cleanup.
C26_AsClaimed ==
    run.pc = "done"
        => /\ run.deleted \cap DOMAIN run.fs0 = {}
           /\ \A p \in DOMAIN run.fs0 : p \in DOMAIN run.fs

\* C27: in a run that reaches cleanup the output of concat is not among the
\* files cleanup deletes, under either of its names, and its name is not the
\* name of a file of the playlist; the output concat wrote is there after
\* cleanup.
C27_OutputKept ==
    \A k \in 1..Len(run.events) :
        run.events[k].op = "concat"
            => /\ <<run.destinationDir, run.events[k].file>> \notin CleanupPaths(run)
               /\ \A j \in 1..Len(run.events[k].list) :
                     run.events[k].list[j] # run.events[k].file
               /\ (run.pc = "done" /\ run.events[k].ok)
                     => /\ <<run.destinationDir, run.events[k].file>> \in DOMAIN run.fs
                        /\ run.fs[<<run.destinationDir, run.events[k].file>>] = "concat"

\* C27 witness: cleanup is over after a concat that wrote the output named
\* "combined (25%).mkv" over the one an earlier run left, other files deleted
C27_Witness ==
    /\ run.pc = "done"
    /\ <<run.destinationDir, StaleOut>> \in DOMAIN run.fs0
    /\ run.deleted # {}
    /\ \E k \in 1..Len(run.events) :
          /\ run.events[k].op = "concat" /\ run.events[k].ok
          /\ run.events[k].file = StaleOut

\* C27 witness of the other name: the output named after date and times
C27_WitnessDated ==
    /\ run.pc = "done"
    /\ \E k \in 1..Len(run.events) :
          /\ run.events[k].op = "concat" /\ run.events[k].ok
          /\ Includes(run.events[k].file, <<Hellip>>)

\* the option an argument names, and how many '=' it holds
NameOf(rev, arg) == getCanonicalParamName(rev, SplitStr(arg, <<"=">>)[1])
EqualsIn(arg) == Len(SplitStr(arg, <<"=">>)) - 1

\* where the claim puts an argument: unknown when its name is no option,
\* invalid when a known option has more than one '=' or is not boolean and
\* has no value, parsed otherwise
ClassOf(rev, arg) ==
    IF ~ArrIncludes(validParams(rev), NameOf(rev, arg)) THEN "unknown"
    ELSE IF EqualsIn(arg) > 1 THEN "invalid"
    ELSE IF EqualsIn(arg) = 0 /\ ~ArrIncludes(boolParams(rev), NameOf(rev, arg))
    THEN "invalid"
    ELSE "parsed"

\* the arguments of one class, in the order given
ArgsOfClass(rev, argv, class) == SelectSeq(argv, LAMBDA a : ClassOf(rev, a) = class)

\* the value the claim gives an option that arguments of the class parsed
\* name: true for a boolean option, else the text after '=' of the last one
ClaimedValue(rev, given, key) ==
    IF ArrIncludes(boolParams(rev), key) THEN JsTrue
    ELSE JsString(SplitStr(given[Len(given)], <<"=">>)[2])

\* the parser has run to its end
Parsed == main.options.values # <<>>

\* C28 (as claimed): after parsing, paramsOK is true exactly when every
\* argument was accepted; the unknown list holds the names of the unknown
\* arguments, all of them in their order, invalid holds the names of the
\* invalid ones and nothing else; an option that no accepted argument names
\* keeps its default, and a boolean option is true whenever an accepted
\* argument names it, whatever follows its '='.
C28_AsClaimed ==
    Parsed
        => /\ main.options.paramsOK
                <=> \A i \in 1..Len(main.argv) : ClassOf(main.rev, main.argv[i]) = "parsed"
           /\ main.options.unknown
                = [i \in 1..Len(ArgsOfClass(main.rev, main.argv, "unknown")) |->
                      NameOf(main.rev, ArgsOfClass(main.rev, main.argv, "unknown")[i])]
           /\ { main.options.invalid[i].key : i \in 1..Len(main.options.invalid) }
                = { NameOf(main.rev, ArgsOfClass(main.rev, main.argv, "invalid")[i]) :
                      i \in 1..Len(ArgsOfClass(main.rev, main.argv, "invalid")) }
           /\ ObjKeys(main.options.values) = validParams(main.rev)
           /\ \A k \in 1..Len(validParams(main.rev)) :
                 LET key == validParams(main.rev)[k]
                     given == SelectSeq(ArgsOfClass(main.rev, main.argv, "parsed"),
                                        LAMBDA a : NameOf(main.rev, a) = key)
                 IN  ObjGet(main.options.values, key)
                       = IF given = <<>> THEN ObjGet(defaults(main.rev), key)
                         ELSE ClaimedValue(main.rev, given, key)

\* C29 (as claimed): parsing never throws, whatever the argument strings
\* are: no run of the process ends in the TypeError of the parser.
C29_AsClaimed ==
    \A k \in 1..Len(main.out) : main.out[k].what # "TypeError"
=============================================================================
